---------------------------- MODULE Spec2Model ----------------------------
(***************************************************************************)
(* Model of the eye-tracking cleaning pipeline of psa_data_quality:        *)
(*   - process_and_clean_data of process/eyelink1000plus_data_processor.py *)
(*     (variant "process") and of preprocess/eyelink1000plus_data_cleaner  *)
(*     .py (variant "preprocess");                                         *)
(*   - clean_trials of process/hm_to_deg.py (variant "hm_to_deg");         *)
(*   - the per-directory batch loops of the head-mounted scripts.          *)
(*                                                                         *)
(* A DataFrame is a sequence of rows (records).  Floating point values are *)
(* modelled by integers and every comparison the code makes on a quotient  *)
(* or a square root is made on the cross-multiplied / squared integers, so *)
(* the arithmetic is exact.  A missing value is the value NaN; every       *)
(* comparison with NaN is false, as in numpy.                              *)
(***************************************************************************)
EXTENDS Integers, Sequences, FiniteSets, TLC

VARIABLES
    variant,               \* which implementation runs
    df,                    \* the input DataFrame
    trial_duration_ms,     \* parameters of process_and_clean_data / clean_trials
    time_trim,
    distance_threshold,
    z_threshold,
    pc,                    \* position in the function
    five_second_windows,   \* rows after window extraction (and, later, dropna)
    window_snapshot,       \* history: the rows right after window extraction
    trim_input,            \* history: the rows the edge trimming was given
    time_trimmed_df,       \* rows after edge trimming
    nan_stats_df,          \* the NaN statistics table
    distance_filtered_df,  \* history: concatenation of every trial's distance_filtered
    filtered_df,           \* the returned cleaned rows
    warnings,              \* (participant, trial) pairs a warning was printed for
    script,                \* batch loop: which script's main runs
    data_dirs,             \* batch loop: the list of data directories
    dir_idx,               \* batch loop: index of the directory being processed
    written,               \* batch loop: indices of the directories whose output exists
    stats_written,         \* batch loop: the statistics file was written
    raised,                \* batch loop: the exception that left main, or "none"
    bpc,                   \* batch loop: position
    hm_script,             \* head-mounted directory: which script's loop body runs
    merged_df,             \* head-mounted directory: target.csv merged with gazeData.tsv
    camera_cal,            \* head-mounted directory: the camera calibration
    hm_nan_stats,          \* the records the body appended to nan_stats
    hm_df,                 \* the rows that passed the gaze-validity check
    undistort_result,      \* history: the frame undistort_dataframe returned
    undistorted_df,        \* the object named undistorted_df
    undistorted_csv,       \* content of undistorted.csv
    stabilized_csv,        \* content of stabilized.csv
    cleaned_df,            \* content of data.csv of head_mounted_data_cleaner
    hpc,                   \* head-mounted directory: position in the body
    raw_csv,               \* load_and_preprocess_data: the export on disk
    raw_df,                \* load_and_preprocess_data: the raw export as read
    processed_df,          \* load_and_preprocess_data: the common data format
    lpc,                   \* load_and_preprocess_data: position
    geo_dir,               \* distance and angles: eye tracker and participant of the directory
    stabilized_rows,       \* distance and angles: the rows of stabilized.csv
    focal_length,          \* distance and angles: camera_cal.focal_length
    distance_df,           \* distance and angles: the rows of distance.csv
    angles_df,             \* distance and angles: df of hm_to_deg.main
    gpc,                   \* distance and angles: position
    cal_class,             \* calibration: the script whose CameraCalibration is built
    cal_source,            \* calibration: the calibration file
    cal_result,            \* calibration: the object built or the exception raised
    cpc,                   \* calibration: position
    durations,             \* stimulus: the durations load_parameters returned
    current_state,         \* stimulus: index of the screen in states
    elapsed,               \* stimulus: time since start_time
    shown,                 \* stimulus: history of the indices given to cv2.imshow
    key,                   \* stimulus: the last value of cv2.waitKey(1) & 0xFF
    spc                    \* stimulus: position

vars == <<variant, df, trial_duration_ms, time_trim, distance_threshold,
          z_threshold, pc, five_second_windows, window_snapshot, trim_input,
          time_trimmed_df, nan_stats_df, distance_filtered_df, filtered_df,
          warnings, script, data_dirs, dir_idx, written, stats_written, raised, bpc,
          hm_script, merged_df, camera_cal, hm_nan_stats, hm_df, undistort_result,
          undistorted_df, undistorted_csv, stabilized_csv, cleaned_df, hpc,
          raw_csv, raw_df, processed_df, lpc,
          geo_dir, stabilized_rows, focal_length, distance_df, angles_df, gpc,
          cal_class, cal_source, cal_result, cpc,
          durations, current_state, elapsed, shown, key, spc>>

pipeVars == <<variant, df, trial_duration_ms, time_trim, distance_threshold,
              z_threshold, pc, five_second_windows, window_snapshot, trim_input,
              time_trimmed_df, nan_stats_df, distance_filtered_df, filtered_df,
              warnings>>

batchVars == <<script, data_dirs, dir_idx, written, stats_written, raised, bpc>>

hmVars == <<hm_script, merged_df, camera_cal, hm_nan_stats, hm_df, undistort_result,
            undistorted_df, undistorted_csv, stabilized_csv, cleaned_df, hpc>>

loadVars == <<raw_csv, raw_df, processed_df, lpc>>

geoVars == <<geo_dir, stabilized_rows, focal_length, distance_df, angles_df, gpc>>

calVars == <<cal_class, cal_source, cal_result, cpc>>

stimVars == <<durations, current_state, elapsed, shown, key, spc>>

-----------------------------------------------------------------------------
(* Bounds of the model *)

MaxRows == 3        \* rows of a dataset of the timing family
MaxSpaceRows == 4   \* rows of a trial of the spatial family
MaxDirs == 3        \* directories of a batch
MaxFrames == 3      \* frames of a head-mounted recording
MaxRawRows == 3     \* rows of a raw export
MaxTrialIndex == 3  \* trial indices of a raw export

-----------------------------------------------------------------------------
(* Missing values and arithmetic helpers *)

\* pandas reads the token "." as a missing value
NaN == -999

IsNaN(v) == v = NaN

\* a >= b and a <= b as numpy evaluates them: false when either side is NaN
GeNum(a, b) == ~IsNaN(a) /\ ~IsNaN(b) /\ a >= b
LeNum(a, b) == ~IsNaN(a) /\ ~IsNaN(b) /\ a <= b

Range(s) == {s[i] : i \in DOMAIN s}

SetMax(S) == CHOOSE m \in S : \A x \in S : x <= m
SetMin(S) == CHOOSE m \in S : \A x \in S : m <= x

\* Series.max() / Series.min(): NaN values are skipped; NaN if nothing is left
SeriesMax(vals) ==
    LET S == {v \in Range(vals) : ~IsNaN(v)}
    IN  IF S = {} THEN NaN ELSE SetMax(S)

SeriesMin(vals) ==
    LET S == {v \in Range(vals) : ~IsNaN(v)}
    IN  IF S = {} THEN NaN ELSE SetMin(S)

Column(rows, c) == [i \in DOMAIN rows |-> rows[i][c]]

RECURSIVE SeqSum(_)
SeqSum(s) == IF s = <<>> THEN 0 ELSE Head(s) + SeqSum(Tail(s))

Sq(x) == x * x

-----------------------------------------------------------------------------
(* Rows and grouping *)

\* TrialCondition with the parity the other way round
TrialConditionEven(idx) == IF idx % 2 = 0 THEN "dilated" ELSE "constricted"

\* trial_condition from the parity of the trial index
TrialCondition(idx) == IF idx % 2 = 1 THEN "dilated" ELSE "constricted"

\* a row of the common format as load_and_preprocess_data builds it; other_nan
\* says that one of gaze_x, gaze_y, pup_diam_l, pup_diam_r is missing
MkRow(p, tr, t, gx, gy, onan) ==
    [participant_id |-> p, trial_number |-> tr,
     trial_condition |-> TrialCondition(tr),
     time |-> t, gaze_angle_x |-> gx, gaze_angle_y |-> gy,
     target_angle_x |-> 0, target_angle_y |-> 0, other_nan |-> onan]

\* df[data_columns].isna().any(axis=1)
HasNaN(r) == r.other_nan \/ IsNaN(r.gaze_angle_x) \/ IsNaN(r.gaze_angle_y)

GroupKey(r) == <<r.participant_id, r.trial_number>>

KeyLeq(a, b) == a[1] < b[1] \/ (a[1] = b[1] /\ a[2] <= b[2])

\* the keys of df.groupby([...]) in the order the groups are iterated (sorted)
RECURSIVE SortedKeys(_)
SortedKeys(K) ==
    IF K = {} THEN <<>>
    ELSE LET k == CHOOSE a \in K : \A b \in K : KeyLeq(a, b)
         IN  <<k>> \o SortedKeys(K \ {k})

GroupKeys(rows) == SortedKeys({GroupKey(r) : r \in Range(rows)})

GroupRows(rows, k) == SelectSeq(rows, LAMBDA r : GroupKey(r) = k)

\* Series.unique(): the values in order of first appearance
RECURSIVE Unique(_)
Unique(s) ==
    IF s = <<>> THEN <<>>
    ELSE LET u == Unique(SubSeq(s, 1, Len(s) - 1))
             x == s[Len(s)]
         IN  IF x \in Range(u) THEN u ELSE Append(u, x)

-----------------------------------------------------------------------------
(* Step: temporal window extraction *)

\* LastSection with the lower bound of the window excluded
LastSectionOpen(group_df, dur) ==
    LET max_time == SeriesMax(Column(group_df, "time"))
        min_time == IF IsNaN(max_time) THEN NaN ELSE max_time - dur
    IN  SelectSeq(group_df, LAMBDA r : GeNum(r.time, min_time + 1) /\ LeNum(r.time, max_time))

\* the last trial_duration_ms of one group
LastSection(group_df, dur) ==
    LET max_time == SeriesMax(Column(group_df, "time"))
        min_time == IF IsNaN(max_time) THEN NaN ELSE max_time - dur
    IN  SelectSeq(group_df, LAMBDA r : GeNum(r.time, min_time) /\ LeNum(r.time, max_time))

RECURSIVE WindowAll(_, _, _)
WindowAll(rows, keys, dur) ==
    IF keys = <<>> THEN <<>>
    ELSE LastSection(GroupRows(rows, Head(keys)), dur)
           \o WindowAll(rows, Tail(keys), dur)

-----------------------------------------------------------------------------
(* Step: edge trimming on the time range *)

\* StartTrim200 with the whole of time_trim cut at the start
StartTrimWhole200(group_df, trim) ==
    LET mn == SeriesMin(Column(group_df, "time"))
        mx == SeriesMax(Column(group_df, "time"))
    IN  200 * mn + (mx - mn) * 2 * trim

\* start_trim and end_trim of a group, both times 200 (edge_trim_percentage is
\* time_trim / 2 and the range is scaled by it / 100)
StartTrim200(group_df, trim) ==
    LET mn == SeriesMin(Column(group_df, "time"))
        mx == SeriesMax(Column(group_df, "time"))
    IN  200 * mn + (mx - mn) * trim

EndTrim200(group_df, trim) ==
    LET mn == SeriesMin(Column(group_df, "time"))
        mx == SeriesMax(Column(group_df, "time"))
    IN  200 * mx - (mx - mn) * trim

TrimGroup(group_df, trim) ==
    IF trim > 0 /\ group_df # <<>> /\ ~IsNaN(SeriesMax(Column(group_df, "time")))
    THEN SelectSeq(group_df,
                   LAMBDA r : /\ ~IsNaN(r.time)
                              /\ 200 * r.time >= StartTrim200(group_df, trim)
                              /\ 200 * r.time <= EndTrim200(group_df, trim))
    ELSE IF trim > 0 THEN <<>> ELSE group_df

RECURSIVE TrimAll(_, _, _)
TrimAll(rows, keys, trim) ==
    IF keys = <<>> THEN <<>>
    ELSE TrimGroup(GroupRows(rows, Head(keys)), trim) \o TrimAll(rows, Tail(keys), trim)

-----------------------------------------------------------------------------
(* Step: missing-data removal *)

\* DropNa that removes nothing
DropNaKeepAll(rows) == rows

\* DropNa with only the two angle columns in the subset
DropNaAnglesOnly(rows) ==
    SelectSeq(rows, LAMBDA r : ~(IsNaN(r.gaze_angle_x) \/ IsNaN(r.gaze_angle_y)))

\* DataFrame.dropna(subset=data_columns)
DropNa(rows) == SelectSeq(rows, LAMBDA r : ~HasNaN(r))

-----------------------------------------------------------------------------
(* Step: spatial filtering of one trial (distance, then z-score) *)

\* distance_to_target squared
DistanceSq(r) ==
    Sq(r.gaze_angle_x - r.target_angle_x) + Sq(r.gaze_angle_y - r.target_angle_y)

\* DistanceKeep with the threshold itself excluded
DistanceKeepStrict(r, dthr) ==
    /\ ~IsNaN(r.gaze_angle_x) /\ ~IsNaN(r.gaze_angle_y)
    /\ dthr >= 0
    /\ DistanceSq(r) < Sq(dthr)

\* distance_to_target <= distance_threshold, the square root compared on squares
DistanceKeep(r, dthr) ==
    /\ ~IsNaN(r.gaze_angle_x) /\ ~IsNaN(r.gaze_angle_y)
    /\ dthr >= 0
    /\ DistanceSq(r) <= Sq(dthr)

\* DistanceFilter that leaves the kept rows ordered by their distance
RECURSIVE SortByDistance(_)
SortByDistance(rows) ==
    IF rows = <<>> THEN <<>>
    ELSE LET m == SetMin({DistanceSq(rows[i]) : i \in DOMAIN rows})
         IN  SelectSeq(rows, LAMBDA r : DistanceSq(r) = m)
               \o SortByDistance(SelectSeq(rows, LAMBDA r : DistanceSq(r) # m))

DistanceFilterSorted(trial_data, dthr) ==
    SortByDistance(SelectSeq(trial_data, LAMBDA r : DistanceKeep(r, dthr)))

DistanceFilter(trial_data, dthr) ==
    SelectSeq(trial_data, LAMBDA r : DistanceKeep(r, dthr))

\* n * sum(v^2) - sum(v)^2 = n^2 * variance of the non-NaN values (ddof = 0)
VarNum(vals) ==
    LET valid == SelectSeq(vals, LAMBDA v : ~IsNaN(v))
        n == Len(valid)
    IN  n * SeqSum([i \in DOMAIN valid |-> Sq(valid[i])]) - Sq(SeqSum(valid))

\* ZScoreBelow with z squared compared to the threshold itself
ZScoreBelowUnsquared(vals, v, zthr) ==
    LET valid == SelectSeq(vals, LAMBDA x : ~IsNaN(x))
        n == Len(valid)
        s == SeqSum(valid)
    IN  /\ ~IsNaN(v)
        /\ VarNum(vals) > 0
        /\ zthr > 0
        /\ Sq(n * v - s) < zthr * VarNum(vals)

\* ZScoreBelow with |z| = zthr accepted
ZScoreBelowInclusive(vals, v, zthr) ==
    LET valid == SelectSeq(vals, LAMBDA x : ~IsNaN(x))
        n == Len(valid)
        s == SeqSum(valid)
    IN  /\ ~IsNaN(v)
        /\ VarNum(vals) > 0
        /\ zthr > 0
        /\ Sq(n * v - s) <= Sq(zthr) * VarNum(vals)

\* np.abs(stats.zscore(vals, nan_policy="omit")) < zthr for the value v of vals:
\* z = (v - mean) / std is NaN when std = 0 (also for a single value), and a
\* comparison with NaN is false
ZScoreBelow(vals, v, zthr) ==
    LET valid == SelectSeq(vals, LAMBDA x : ~IsNaN(x))
        n == Len(valid)
        s == SeqSum(valid)
    IN  /\ ~IsNaN(v)
        /\ VarNum(vals) > 0
        /\ zthr > 0
        /\ Sq(n * v - s) < Sq(zthr) * VarNum(vals)

\* valid_mask: the conjunction over both axis columns
ZScoreFilter(distance_filtered, zthr) ==
    SelectSeq(distance_filtered,
              LAMBDA r : /\ ZScoreBelow(Column(distance_filtered, "gaze_angle_x"),
                                        r.gaze_angle_x, zthr)
                         /\ ZScoreBelow(Column(distance_filtered, "gaze_angle_y"),
                                        r.gaze_angle_y, zthr))

\* the rows of participant p
ParticipantRows(rows, p) == SelectSeq(rows, LAMBDA r : r.participant_id = p)

RECURSIVE SortedInts(_)
SortedInts(S) ==
    IF S = {} THEN <<>> ELSE <<SetMin(S)>> \o SortedInts(S \ {SetMin(S)})

Participants(rows) == SortedInts({r.participant_id : r \in Range(rows)})

\* the (participant, trial) pairs in the order the spatial loops visit them:
\* participants sorted (groupby), trials in order of first appearance (unique)
RECURSIVE SpatialOrder(_, _)
SpatialOrder(rows, ps) ==
    IF ps = <<>> THEN <<>>
    ELSE LET trials == Unique(Column(ParticipantRows(rows, Head(ps)), "trial_number"))
         IN  [i \in DOMAIN trials |-> <<Head(ps), trials[i]>>]
               \o SpatialOrder(rows, Tail(ps))

RECURSIVE DistanceAll(_, _, _)
DistanceAll(rows, keys, dthr) ==
    IF keys = <<>> THEN <<>>
    ELSE DistanceFilter(GroupRows(rows, Head(keys)), dthr)
           \o DistanceAll(rows, Tail(keys), dthr)

\* CleanAll with the z-scores taken over the distance-filtered rows of all the
\* trials together
CleanAllPooled(rows, keys, dthr, zthr) ==
    ZScoreFilter(DistanceAll(rows, keys, dthr), zthr)

RECURSIVE CleanAll(_, _, _, _)
CleanAll(rows, keys, dthr, zthr) ==
    IF keys = <<>> THEN <<>>
    ELSE ZScoreFilter(DistanceFilter(GroupRows(rows, Head(keys)), dthr), zthr)
           \o CleanAll(rows, Tail(keys), dthr, zthr)

-----------------------------------------------------------------------------
(* Step: NaN statistics *)

CondRows(rows, p, c) ==
    SelectSeq(rows, LAMBDA r : r.participant_id = p /\ r.trial_condition = c)

NanCount(rows) == Len(SelectSeq(rows, LAMBDA r : HasNaN(r)))

\* one record of nan_stats_list; nan_percentage is the fraction pct_num / pct_den
StatRow(p, c, rows) ==
    [participant_id |-> p, condition |-> c,
     total_rows |-> Len(rows), nan_rows |-> NanCount(rows)]

RECURSIVE StatList(_, _, _)
StatList(rows, ps, conds) ==
    IF ps = <<>> THEN <<>>
    ELSE LET present == SelectSeq(conds, LAMBDA c : CondRows(rows, Head(ps), c) # <<>>)
         IN  [i \in DOMAIN present |->
                 StatRow(Head(ps), present[i], CondRows(rows, Head(ps), present[i]))]
               \o StatList(rows, Tail(ps), conds)

\* processor: groupby(["participant_id", "trial_condition"]), keys sorted
NanStatsProcess(rows) ==
    StatList(rows, Participants(rows), <<"constricted", "dilated">>)

\* NanPercentage as a ratio, not multiplied by 100
NanPercentageRatio(st) ==
    IF st.total_rows > 0 THEN <<st.nan_rows, st.total_rows>> ELSE <<0, 1>>

\* nan_percentage of a statistics record as the fraction <<numerator, denominator>>
NanPercentage(st) ==
    IF st.total_rows > 0 THEN <<st.nan_rows * 100, st.total_rows>> ELSE <<0, 1>>

\* cleaner: per participant, "dilated" then "constricted", then the ALL row;
\* every record with its nan_percentage
NanStatsPreprocess(rows) ==
    LET nan_stats_list ==
            Append(StatList(rows, Participants(rows), <<"dilated", "constricted">>),
                   [participant_id |-> 0, condition |-> "ALL",
                    total_rows |-> Len(rows), nan_rows |-> NanCount(rows)])
    IN  [i \in DOMAIN nan_stats_list |->
            nan_stats_list[i] @@ [nan_percentage |-> NanPercentage(nan_stats_list[i])]]

-----------------------------------------------------------------------------
(* clean_trials of hm_to_deg.py: trimming on the row index *)

\* positions (row index labels of the RangeIndex) of the rows of trial tr
TrialIndex(rows, tr) == {i \in DOMAIN rows : rows[i].trial_number = tr}

\* IndexCut rounded up instead of truncated
IndexCutCeil(total_indices, trim) == (total_indices * trim + 199) \div 200

\* int(total_indices * (threshold / 100)) with threshold = trim / 2
IndexCut(total_indices, trim) == (total_indices * trim) \div 200

\* the positions kept by the time mask of trial tr
IndexKept(rows, tr, trim) ==
    LET idx == TrialIndex(rows, tr)
        start_idx == SetMin(idx)
        end_idx == SetMax(idx)
        keep_start_idx == start_idx + IndexCut(end_idx - start_idx, trim)
        keep_end_idx == end_idx - IndexCut(end_idx - start_idx, trim)
    IN  {i \in idx : i >= keep_start_idx /\ i <= keep_end_idx}

RECURSIVE PickRows(_, _, _)
PickRows(rows, keep, i) ==
    IF i > Len(rows) THEN <<>>
    ELSE (IF i \in keep THEN <<rows[i]>> ELSE <<>>) \o PickRows(rows, keep, i + 1)

IndexTrimTrial(rows, tr, trim) == PickRows(rows, IndexKept(rows, tr, trim), 1)

RECURSIVE HmTrimAll(_, _, _)
HmTrimAll(rows, trials, trim) ==
    IF trials = <<>> THEN <<>>
    ELSE IndexTrimTrial(rows, Head(trials), trim) \o HmTrimAll(rows, Tail(trials), trim)

RECURSIVE HmDistanceAll(_, _, _, _)
HmDistanceAll(rows, trials, trim, dthr) ==
    IF trials = <<>> THEN <<>>
    ELSE DistanceFilter(IndexTrimTrial(rows, Head(trials), trim), dthr)
           \o HmDistanceAll(rows, Tail(trials), trim, dthr)

RECURSIVE HmCleanAll(_, _, _, _, _)
HmCleanAll(rows, trials, trim, dthr, zthr) ==
    IF trials = <<>> THEN <<>>
    ELSE ZScoreFilter(DistanceFilter(IndexTrimTrial(rows, Head(trials), trim), dthr), zthr)
           \o HmCleanAll(rows, Tail(trials), trim, dthr, zthr)

-----------------------------------------------------------------------------
(* The loop body of hm_nan_undistort_stabilize.main and of                     *)
(* head_mounted_data_cleaner.main for one data directory: data steps           *)

HmScripts == {"hm_nan_undistort_stabilize", "head_mounted_data_cleaner"}

\* the two values of trial_condition a script splits on, in the order it
\* handles them
HmConditions(sc) ==
    IF sc = "hm_nan_undistort_stabilize" THEN <<"dark", "bright">>
    ELSE <<"dilated", "constricted">>

\* a row of merged_df[columns_to_keep] of hm_nan_undistort_stabilize: frame i of
\* segment seg with the target at t, the four corners around it and the gaze g
StabilizeMergedRow(i, seg, t, g) ==
    [segment |-> seg, frame |-> i,
     trial_condition |-> HmConditions("hm_nan_undistort_stabilize")[seg],
     target_x |-> t[1], target_y |-> t[2],
     top_left_x |-> t[1] - 2, top_left_y |-> t[2] - 1,
     top_right_x |-> t[1] + 2, top_right_y |-> t[2] - 1,
     bottom_left_x |-> t[1] - 2, bottom_left_y |-> t[2] + 1,
     bottom_right_x |-> t[1] + 2, bottom_right_y |-> t[2] + 1,
     pup_diam_l |-> IF seg = 1 THEN 3 ELSE NaN,
     pup_diam_r |-> IF seg = 1 THEN 4 ELSE NaN,
     gaze_pos_vid_x |-> g[1], gaze_pos_vid_y |-> g[2]]

\* a row of merged_df of head_mounted_data_cleaner; index is its row label
CleanerMergedRow(i, seg, t, g) ==
    [index |-> i, frame |-> i,
     trial_condition |-> HmConditions("head_mounted_data_cleaner")[seg],
     segment |-> seg, target_x |-> t[1], target_y |-> t[2],
     gaze_pos_vid_x |-> g[1], gaze_pos_vid_y |-> g[2]]

\* df[["gaze_pos_vid_x", "gaze_pos_vid_y"]].isna().any(axis=1)
GazeMissing(r) == IsNaN(r.gaze_pos_vid_x) \/ IsNaN(r.gaze_pos_vid_y)

ConditionRows(rows, c) == SelectSeq(rows, LAMBDA r : r.trial_condition = c)

GazeNanCount(rows) == Len(SelectSeq(rows, LAMBDA r : GazeMissing(r)))

\* the two records a directory appends to nan_stats; only the cleaner records
\* nan_percentage
HmNanStats(sc, merged) ==
    [i \in 1..2 |->
        LET st == [condition |-> HmConditions(sc)[i],
                   total_rows |-> Len(ConditionRows(merged, HmConditions(sc)[i])),
                   nan_rows |-> GazeNanCount(ConditionRows(merged, HmConditions(sc)[i]))]
        IN  IF sc = "head_mounted_data_cleaner"
            THEN st @@ [nan_percentage |-> NanPercentage(st)]
            ELSE st]

\* pd.concat of the rows of the two conditions that have a gaze position
ValidConcat(sc, merged) ==
    SelectSeq(ConditionRows(merged, HmConditions(sc)[1]), LAMBDA r : ~GazeMissing(r))
      \o SelectSeq(ConditionRows(merged, HmConditions(sc)[2]), LAMBDA r : ~GazeMissing(r))

\* sort_values(by="frame")
RECURSIVE SortByFrame(_)
SortByFrame(rows) ==
    IF rows = <<>> THEN <<>>
    ELSE LET m == SetMin({rows[i].frame : i \in DOMAIN rows})
         IN  SelectSeq(rows, LAMBDA r : r.frame = m)
               \o SortByFrame(SelectSeq(rows, LAMBDA r : r.frame # m))

\* rename(columns={"segment": "trial_number", "gaze_pos_vid_x": "gaze_x", ...})
RenameRow(r) ==
    [trial_number |-> r.segment, frame |-> r.frame, trial_condition |-> r.trial_condition,
     target_x |-> r.target_x, target_y |-> r.target_y,
     top_left_x |-> r.top_left_x, top_left_y |-> r.top_left_y,
     top_right_x |-> r.top_right_x, top_right_y |-> r.top_right_y,
     bottom_left_x |-> r.bottom_left_x, bottom_left_y |-> r.bottom_left_y,
     bottom_right_x |-> r.bottom_right_x, bottom_right_y |-> r.bottom_right_y,
     pup_diam_l |-> r.pup_diam_l, pup_diam_r |-> r.pup_diam_r,
     gaze_x |-> r.gaze_pos_vid_x, gaze_y |-> r.gaze_pos_vid_y]

\* the frame the gaze-validity check of hm_nan_undistort_stabilize leaves
StabilizeInput(merged) ==
    LET sorted == SortByFrame(ValidConcat("hm_nan_undistort_stabilize", merged))
    IN  [i \in DOMAIN sorted |-> RenameRow(sorted[i])]

\* a + b and a - b on floats: NaN when either side is
AddNum(a, b) == IF IsNaN(a) \/ IsNaN(b) THEN NaN ELSE a + b
SubNum(a, b) == IF IsNaN(a) \/ IsNaN(b) THEN NaN ELSE a - b

\* cv2.undistortPoints of one point: a correction that grows with the distance
\* to the principal point, by the distortion coefficient of the calibration (the
\* library's polynomial is stood for by its first order)
PrincipalPoint == <<5, 5>>
UndistortPoint(cal, x, y) ==
    IF IsNaN(x) \/ IsNaN(y) THEN <<NaN, NaN>>
    ELSE <<x + cal * (x - PrincipalPoint[1]), y + cal * (y - PrincipalPoint[2])>>

coordinate_pairs ==
    <<<<"target_x", "target_y">>, <<"top_left_x", "top_left_y">>,
      <<"top_right_x", "top_right_y">>, <<"bottom_left_x", "bottom_left_y">>,
      <<"bottom_right_x", "bottom_right_y">>, <<"gaze_x", "gaze_y">>>>

UndistortRow(cal, r) ==
    [c \in DOMAIN r |->
        IF \E i \in DOMAIN coordinate_pairs : coordinate_pairs[i][1] = c
        THEN LET q == CHOOSE i \in DOMAIN coordinate_pairs : coordinate_pairs[i][1] = c
             IN  UndistortPoint(cal, r[c], r[coordinate_pairs[q][2]])[1]
        ELSE IF \E i \in DOMAIN coordinate_pairs : coordinate_pairs[i][2] = c
        THEN LET q == CHOOSE i \in DOMAIN coordinate_pairs : coordinate_pairs[i][2] = c
             IN  UndistortPoint(cal, r[coordinate_pairs[q][1]], r[c])[2]
        ELSE r[c]]

\* undistort_dataframe: works on a copy of df
UndistortDataframe(rows, cal) == [i \in DOMAIN rows |-> UndistortRow(cal, rows[i])]

\* col.endswith("_x") / col.endswith("_y") for the columns of the frame
ColumnSuffix(c) ==
    IF c \in {"target_x", "top_left_x", "top_right_x", "bottom_left_x",
              "bottom_right_x", "gaze_x"} THEN "_x"
    ELSE IF c \in {"target_y", "top_left_y", "top_right_y", "bottom_left_y",
                   "bottom_right_y", "gaze_y"} THEN "_y"
    ELSE ""

\* AlignToReference without the offset on the gaze columns
AlignTargetsOnly(rows) ==
    [i \in DOMAIN rows |->
        [c \in DOMAIN rows[i] |->
            IF c \in {"gaze_x", "gaze_y"} THEN rows[i][c]
            ELSE IF ColumnSuffix(c) = "_x"
            THEN AddNum(rows[i][c], SubNum(rows[1].target_x, rows[i].target_x))
            ELSE IF ColumnSuffix(c) = "_y"
            THEN AddNum(rows[i][c], SubNum(rows[1].target_y, rows[i].target_y))
            ELSE rows[i][c]]]

\* the offsets that bring every frame's target to the one of the first frame,
\* added to every coordinate column
AlignToReference(rows) ==
    [i \in DOMAIN rows |->
        [c \in DOMAIN rows[i] |->
            IF ColumnSuffix(c) = "_x"
            THEN AddNum(rows[i][c], SubNum(rows[1].target_x, rows[i].target_x))
            ELSE IF ColumnSuffix(c) = "_y"
            THEN AddNum(rows[i][c], SubNum(rows[1].target_y, rows[i].target_y))
            ELSE rows[i][c]]]

Abs(x) == IF x < 0 THEN -x ELSE x

\* transforms.angle_between of the unprojected target and gaze: the angle grows
\* with the pixel offset, which stands for it
GazeTargetAngle(r) ==
    IF GazeMissing(r) THEN NaN
    ELSE Abs(r.gaze_pos_vid_x - r.target_x) + Abs(r.gaze_pos_vid_y - r.target_y)

WithAngle(rows) ==
    [i \in DOMAIN rows |-> rows[i] @@ [gaze_target_angle |-> GazeTargetAngle(rows[i])]]

\* clean_trials of head_mounted_data_cleaner for one segment: trimming on the
\* row labels, then the angle threshold, then the z-score of the angle
CleanerDistanceTrimmed(rows, seg, trim, dthr) ==
    LET trial_data == SelectSeq(rows, LAMBDA r : r.segment = seg)
        idx == {trial_data[i].index : i \in DOMAIN trial_data}
        keep_start_idx == SetMin(idx) + IndexCut(SetMax(idx) - SetMin(idx), trim)
        keep_end_idx == SetMax(idx) - IndexCut(SetMax(idx) - SetMin(idx), trim)
        time_trimmed_data ==
            SelectSeq(trial_data,
                      LAMBDA r : r.index >= keep_start_idx /\ r.index <= keep_end_idx)
    IN  SelectSeq(time_trimmed_data, LAMBDA r : LeNum(r.gaze_target_angle, dthr))

CleanerSegment(rows, seg, trim, dthr, zthr) ==
    LET distance_trimmed_data == CleanerDistanceTrimmed(rows, seg, trim, dthr)
    IN  SelectSeq(distance_trimmed_data,
                  LAMBDA r : ZScoreBelow(Column(distance_trimmed_data, "gaze_target_angle"),
                                         r.gaze_target_angle, zthr))

RECURSIVE CleanerCleanTrials(_, _, _, _, _)
CleanerCleanTrials(rows, segs, trim, dthr, zthr) ==
    IF segs = <<>> THEN <<>>
    ELSE CleanerSegment(rows, Head(segs), trim, dthr, zthr)
           \o CleanerCleanTrials(rows, Tail(segs), trim, dthr, zthr)

\* the merged frames of a directory: frames in order, segments one after the
\* other, the target at one of two places, the gaze found or not
HmTargets == {<<5, 5>>, <<7, 4>>}
HmGazes == {<<6, 6>>, <<NaN, 6>>, <<6, NaN>>}
HmKinds == {1, 2} \X HmTargets \X HmGazes
Cameras == {0, 1}

HmInputs(sc) ==
    UNION {{[i \in 1..n |->
               IF sc = "hm_nan_undistort_stabilize"
               THEN StabilizeMergedRow(i, f[i][1], f[i][2], f[i][3])
               ELSE CleanerMergedRow(i, f[i][1], f[i][2], f[i][3])] :
            f \in {h \in [1..n -> HmKinds] :
                     \A i \in 1..(n - 1) : h[i][1] <= h[i + 1][1]}} :
           n \in 1..MaxFrames}

InitHmIdle ==
    /\ hm_script = "none" /\ merged_df = <<>> /\ camera_cal = 0
    /\ hm_nan_stats = <<>> /\ hm_df = <<>> /\ undistort_result = <<>>
    /\ undistorted_df = <<>> /\ undistorted_csv = <<>> /\ stabilized_csv = <<>>
    /\ cleaned_df = <<>> /\ hpc = "idle"

InitHm ==
    /\ hm_script \in HmScripts
    /\ merged_df \in HmInputs(hm_script)
    /\ camera_cal \in Cameras
    /\ hm_nan_stats = <<>> /\ hm_df = <<>> /\ undistort_result = <<>>
    /\ undistorted_df = <<>> /\ undistorted_csv = <<>> /\ stabilized_csv = <<>>
    /\ cleaned_df = <<>> /\ hpc = "nan_check"

-----------------------------------------------------------------------------
(* Input families *)

RECURSIVE LexLeq(_, _)
LexLeq(a, b) ==
    IF a = <<>> THEN TRUE
    ELSE Head(a) < Head(b) \/ (Head(a) = Head(b) /\ LexLeq(Tail(a), Tail(b)))

\* rows are stored in file order: by participant, by trial, by time
RowLeq(a, b) ==
    LexLeq(<<a.participant_id, a.trial_number, a.time, a.gaze_angle_x, a.gaze_angle_y,
             IF a.other_nan THEN 1 ELSE 0>>,
           <<b.participant_id, b.trial_number, b.time, b.gaze_angle_x, b.gaze_angle_y,
             IF b.other_nan THEN 1 ELSE 0>>)

\* the datasets of at most n rows of R, in file order
RECURSIVE SortedSeqs(_, _)
SortedSeqs(R, n) ==
    IF n = 0 THEN {<<>>}
    ELSE LET prev == SortedSeqs(R, n - 1)
             full == {q \in prev : Len(q) = n - 1}
         IN  prev \cup {Append(p[1], p[2]) :
                          p \in {x \in full \X R :
                                   Len(x[1]) = 0 \/ RowLeq(x[1][Len(x[1])], x[2])}}

TimeGroups == {<<1, 1>>, <<1, 2>>, <<2, 1>>}
TimeVals == {0, 1, 7, 8}

\* timing family: the time, the group and the missing values vary
TimeRows ==
    {MkRow(k[1], k[2], t, t, 8 - t, b) : k \in TimeGroups, t \in TimeVals, b \in BOOLEAN}
      \cup {MkRow(k[1], k[2], NaN, 0, 0, FALSE) : k \in TimeGroups}

\* spatial family: the gaze angles of one trial vary
Points == {<<0, 0>>, <<1, 0>>, <<0, 3>>, <<6, 8>>, <<11, 0>>}
SpaceRows == {MkRow(1, 1, 0, q[1], q[2], FALSE) : q \in Points}

\* outlier family: a trial of ten samples, nine with a value in -1 .. 1 on the x
\* axis (a of them -1, b of them 0) and one at o; the y axis alternates
OutlierTrial(a, b, o) ==
    [i \in 1..10 |->
        MkRow(1, 1, 0,
              IF i <= a THEN -1 ELSE IF i <= a + b THEN 0 ELSE IF i <= 9 THEN 1 ELSE o,
              i % 2, FALSE)]

\* evenly spaced family: n + 1 samples with timestamps from 0 to 1000
EvenTrial(n) == [i \in 1..(n + 1) |-> MkRow(1, 1, ((i - 1) * 1000) \div n, i % 3, i % 2, FALSE)]

\* frame-indexed family: the rows of stabilized.csv, sorted by frame, a first
\* trial of n1 frames followed by a second one of n2 frames
IndexLens == {1, 2, 8, 9, 16, 17}
IndexTrials(n1, n2) ==
    [i \in 1..(n1 + n2) |-> MkRow(1, IF i <= n1 THEN 1 ELSE 2, i, i % 3, i % 2, FALSE)]

\* a batch of 100 samples of one trial, 17 of them with a missing value
HundredTrial == [i \in 1..100 |-> MkRow(1, 1, i, i % 3, i % 2, i % 6 = 1)]

Variants == {"process", "preprocess", "hm_to_deg"}

StartPc(v) ==
    IF v = "process" THEN "window"
    ELSE IF v = "preprocess" THEN "window_trim" ELSE "clean_trials"

InitBatchIdle ==
    /\ script = "none" /\ data_dirs = <<>> /\ dir_idx = 0
    /\ written = {} /\ stats_written = FALSE /\ raised = "none" /\ bpc = "idle"

InitPipeRest ==
    /\ pc = StartPc(variant)
    /\ five_second_windows = <<>> /\ window_snapshot = <<>> /\ trim_input = <<>>
    /\ time_trimmed_df = <<>> /\ nan_stats_df = <<>>
    /\ distance_filtered_df = <<>> /\ filtered_df = <<>>
    /\ warnings = {}

\* the window length and trim percentage of a run of the timing family
TimeParams == {<<7, 25>>, <<5000, 25>>, <<5000, 0>>}

\* clean_trials has no time column to miss a value and no window length, and the
\* file it is given holds one participant
InitTiming ==
    /\ \/ /\ variant \in {"process", "preprocess"}
          /\ df \in SortedSeqs(TimeRows, MaxRows) \ {<<>>}
          /\ \E q \in TimeParams : trial_duration_ms = q[1] /\ time_trim = q[2]
       \/ /\ variant = "hm_to_deg"
          /\ df \in SortedSeqs({r \in TimeRows : ~IsNaN(r.time) /\ r.participant_id = 1},
                                MaxRows) \ {<<>>}
          /\ trial_duration_ms = 5000
          /\ time_trim \in {0, 25}
    /\ distance_threshold = 10
    /\ z_threshold = 3

InitSpatial ==
    /\ df \in SortedSeqs(SpaceRows, MaxSpaceRows) \ {<<>>}
    /\ trial_duration_ms = 5000
    /\ time_trim = 25
    /\ distance_threshold = 10
    /\ z_threshold \in {1, 2, 3}

InitOutlier ==
    /\ \E a \in 0..9 : \E b \in 0..(9 - a) : \E o \in {-5, 5} : df = OutlierTrial(a, b, o)
    /\ trial_duration_ms = 5000
    /\ time_trim = 0
    /\ distance_threshold = 10
    /\ z_threshold = 3

InitEven ==
    /\ \E n \in {1, 2, 4, 5, 8, 10} : df = EvenTrial(n)
    /\ trial_duration_ms = 5000
    /\ time_trim = 20
    /\ distance_threshold = 10
    /\ z_threshold = 3

InitIndex ==
    /\ variant = "hm_to_deg"
    /\ \E n1 \in IndexLens : \E n2 \in IndexLens \cup {0} : df = IndexTrials(n1, n2)
    /\ trial_duration_ms = 5000
    /\ time_trim = 25
    /\ distance_threshold = 10
    /\ z_threshold = 3

InitLoadIdle ==
    raw_csv = <<>> /\ raw_df = <<>> /\ processed_df = <<>> /\ lpc = "idle"

InitGeoIdle ==
    /\ geo_dir = <<>> /\ stabilized_rows = <<>> /\ focal_length = 0
    /\ distance_df = <<>> /\ angles_df = <<>> /\ gpc = "idle"

InitCalIdle ==
    cal_class = "none" /\ cal_source = <<>> /\ cal_result = "none" /\ cpc = "idle"

InitStimIdle ==
    /\ durations = <<>> /\ current_state = 0 /\ elapsed = 0
    /\ shown = <<>> /\ key = 255 /\ spc = "idle"

InitPipeIdle ==
    /\ variant = "none" /\ df = <<>>
    /\ trial_duration_ms = 5000 /\ time_trim = 25
    /\ distance_threshold = 10 /\ z_threshold = 3
    /\ pc = "idle"
    /\ five_second_windows = <<>> /\ window_snapshot = <<>> /\ trim_input = <<>>
    /\ time_trimmed_df = <<>> /\ nan_stats_df = <<>>
    /\ distance_filtered_df = <<>> /\ filtered_df = <<>>
    /\ warnings = {}

\* small-trial family: a trial of n samples, the first k at 0 and the rest at
\* o on the x axis, one sample at o and the rest at 0 on the y axis
SmallLens == {2, 3, 4, 5, 6, 7, 8, 9, 17}
SmallTrial(n, k, j, o) ==
    [i \in 1..n |-> MkRow(1, 1, i, IF i <= k THEN 0 ELSE o, IF i = j THEN o ELSE 0, FALSE)]

InitSmall ==
    /\ \E n \in SmallLens : \E k \in 0..(n - 1) : \E j \in {1, n} : \E o \in {1, 6} :
          df = SmallTrial(n, k, j, o)
    /\ trial_duration_ms = 5000
    /\ time_trim \in {0, 25}
    /\ distance_threshold = 10
    /\ z_threshold = 3

InitHundred ==
    /\ variant \in {"process", "preprocess"}
    /\ df = HundredTrial
    /\ trial_duration_ms = 5000
    /\ time_trim = 0
    /\ distance_threshold = 10
    /\ z_threshold = 3

Init ==
    \/ /\ variant \in Variants
       /\ \/ InitTiming \/ InitSpatial \/ InitOutlier \/ InitEven \/ InitIndex
          \/ InitHundred \/ InitSmall
       /\ InitPipeRest
       /\ InitBatchIdle
       /\ InitHmIdle
       /\ InitLoadIdle
       /\ InitGeoIdle
       /\ InitCalIdle
       /\ InitStimIdle
    \/ /\ InitPipeIdle
       /\ InitBatchIdle
       /\ InitHm
       /\ InitLoadIdle
       /\ InitGeoIdle
       /\ InitCalIdle
       /\ InitStimIdle

-----------------------------------------------------------------------------
(* process_and_clean_data of process/eyelink1000plus_data_processor.py *)

\* Step 1: extract the 5-second windows
P_Window ==
    /\ variant = "process" /\ pc = "window"
    /\ five_second_windows' = WindowAll(df, GroupKeys(df), trial_duration_ms)
    /\ window_snapshot' = WindowAll(df, GroupKeys(df), trial_duration_ms)
    /\ pc' = "nan_stats"
    /\ UNCHANGED <<variant, df, trial_duration_ms, time_trim, distance_threshold,
                   z_threshold, trim_input, time_trimmed_df, nan_stats_df,
                   distance_filtered_df, filtered_df, warnings>>
    /\ UNCHANGED <<batchVars, hmVars, loadVars, geoVars, calVars, stimVars>>

\* Step 2: NaN statistics by participant and condition
P_NanStats ==
    /\ variant = "process" /\ pc = "nan_stats"
    /\ nan_stats_df' = NanStatsProcess(five_second_windows)
    /\ pc' = "dropna"
    /\ UNCHANGED <<variant, df, trial_duration_ms, time_trim, distance_threshold,
                   z_threshold, five_second_windows, window_snapshot, trim_input,
                   time_trimmed_df, distance_filtered_df, filtered_df, warnings>>
    /\ UNCHANGED <<batchVars, hmVars, loadVars, geoVars, calVars, stimVars>>

\* Step 3: remove NaNs
P_DropNa ==
    /\ variant = "process" /\ pc = "dropna"
    /\ five_second_windows' = DropNa(five_second_windows)
    /\ pc' = "time_trim"
    /\ UNCHANGED <<variant, df, trial_duration_ms, time_trim, distance_threshold,
                   z_threshold, window_snapshot, trim_input, time_trimmed_df,
                   nan_stats_df, distance_filtered_df, filtered_df, warnings>>
    /\ UNCHANGED <<batchVars, hmVars, loadVars, geoVars, calVars, stimVars>>

\* Step 4: time trimming, reset_index and removal of the timing column; with no
\* group at all the result has no column and dropping the timing column raises
P_TimeTrim ==
    /\ variant = "process" /\ pc = "time_trim"
    /\ trim_input' = five_second_windows
    /\ time_trimmed_df' =
         TrimAll(five_second_windows, GroupKeys(five_second_windows), time_trim)
    /\ pc' = IF five_second_windows = <<>> THEN "error" ELSE "spatial"
    /\ UNCHANGED <<variant, df, trial_duration_ms, time_trim, distance_threshold,
                   z_threshold, five_second_windows, window_snapshot, nan_stats_df,
                   distance_filtered_df, filtered_df, warnings>>
    /\ UNCHANGED <<batchVars, hmVars, loadVars, geoVars, calVars, stimVars>>

\* Step 5 (Step 4 of the cleaner, same code): spatial filtering of every trial
SpatialFilter ==
    /\ variant \in {"process", "preprocess"} /\ pc = "spatial"
    /\ LET order == SpatialOrder(time_trimmed_df, Participants(time_trimmed_df))
       IN  /\ distance_filtered_df' =
                DistanceAll(time_trimmed_df, order, distance_threshold)
           /\ filtered_df' =
                CleanAll(time_trimmed_df, order, distance_threshold, z_threshold)
    /\ pc' = "done"
    /\ UNCHANGED <<variant, df, trial_duration_ms, time_trim, distance_threshold,
                   z_threshold, five_second_windows, window_snapshot, trim_input,
                   time_trimmed_df, nan_stats_df, warnings>>
    /\ UNCHANGED <<batchVars, hmVars, loadVars, geoVars, calVars, stimVars>>

-----------------------------------------------------------------------------
(* process_and_clean_data of preprocess/eyelink1000plus_data_cleaner.py *)

\* the groups whose window is not empty (the others are skipped by continue)
NonEmptyKeys(rows, keys, dur) ==
    SelectSeq(keys, LAMBDA k : LastSection(GroupRows(rows, k), dur) # <<>>)

\* Step 1: window extraction and trimming in one loop over the groups
C_WindowTrim ==
    /\ variant = "preprocess" /\ pc = "window_trim"
    /\ LET keys == GroupKeys(df)
           windows == WindowAll(df, keys, trial_duration_ms)
       IN  /\ window_snapshot' = windows
           /\ trim_input' = windows
           /\ warnings' = Range(keys) \ Range(NonEmptyKeys(df, keys, trial_duration_ms))
           /\ time_trimmed_df' =
                TrimAll(windows, NonEmptyKeys(df, keys, trial_duration_ms), time_trim)
    /\ pc' = "nan_stats"
    /\ UNCHANGED <<variant, df, trial_duration_ms, time_trim, distance_threshold,
                   z_threshold, five_second_windows, nan_stats_df,
                   distance_filtered_df, filtered_df>>
    /\ UNCHANGED <<batchVars, hmVars, loadVars, geoVars, calVars, stimVars>>

\* Step 2: NaN statistics; with every group skipped the frame has no column and
\* groupby("participant_id") raises
C_NanStats ==
    /\ variant = "preprocess" /\ pc = "nan_stats"
    /\ IF window_snapshot = <<>>
       THEN pc' = "error" /\ UNCHANGED nan_stats_df
       ELSE pc' = "dropna" /\ nan_stats_df' = NanStatsPreprocess(time_trimmed_df)
    /\ UNCHANGED <<variant, df, trial_duration_ms, time_trim, distance_threshold,
                   z_threshold, five_second_windows, window_snapshot, trim_input,
                   time_trimmed_df, distance_filtered_df, filtered_df, warnings>>
    /\ UNCHANGED <<batchVars, hmVars, loadVars, geoVars, calVars, stimVars>>

\* remove the rows with NaNs, Step 3: remove the timing column
C_DropNa ==
    /\ variant = "preprocess" /\ pc = "dropna"
    /\ time_trimmed_df' = DropNa(time_trimmed_df)
    /\ pc' = "spatial"
    /\ UNCHANGED <<variant, df, trial_duration_ms, time_trim, distance_threshold,
                   z_threshold, five_second_windows, window_snapshot, trim_input,
                   nan_stats_df, distance_filtered_df, filtered_df, warnings>>
    /\ UNCHANGED <<batchVars, hmVars, loadVars, geoVars, calVars, stimVars>>

-----------------------------------------------------------------------------
(* clean_trials of process/hm_to_deg.py *)

HM_CleanTrials ==
    /\ variant = "hm_to_deg" /\ pc = "clean_trials"
    /\ LET trials == Unique(Column(df, "trial_number"))
       IN  /\ trim_input' = df
           /\ time_trimmed_df' = HmTrimAll(df, trials, time_trim)
           /\ distance_filtered_df' =
                HmDistanceAll(df, trials, time_trim, distance_threshold)
           /\ filtered_df' =
                HmCleanAll(df, trials, time_trim, distance_threshold, z_threshold)
    /\ pc' = "done"
    /\ UNCHANGED <<variant, df, trial_duration_ms, time_trim, distance_threshold,
                   z_threshold, five_second_windows, window_snapshot, nan_stats_df,
                   warnings>>
    /\ UNCHANGED <<batchVars, hmVars, loadVars, geoVars, calVars, stimVars>>

-----------------------------------------------------------------------------
(* The loop body of hm_nan_undistort_stabilize.main for one data directory *)

\* split by condition, NaN statistics, the valid rows sorted by frame and renamed
H_NanCheck ==
    /\ hm_script = "hm_nan_undistort_stabilize" /\ hpc = "nan_check"
    /\ hm_nan_stats' = HmNanStats(hm_script, merged_df)
    /\ hm_df' = StabilizeInput(merged_df)
    /\ hpc' = "undistort"
    /\ UNCHANGED <<hm_script, merged_df, camera_cal, undistort_result, undistorted_df,
                   undistorted_csv, stabilized_csv, cleaned_df>>
    /\ UNCHANGED <<pipeVars, batchVars, loadVars, geoVars, calVars, stimVars>>

\* undistorted_df = undistort_dataframe(df, camera_cal), written to undistorted.csv
H_Undistort ==
    /\ hm_script = "hm_nan_undistort_stabilize" /\ hpc = "undistort"
    /\ undistort_result' = UndistortDataframe(hm_df, camera_cal)
    /\ undistorted_df' = UndistortDataframe(hm_df, camera_cal)
    /\ undistorted_csv' = UndistortDataframe(hm_df, camera_cal)
    /\ hpc' = "align"
    /\ UNCHANGED <<hm_script, merged_df, camera_cal, hm_nan_stats, hm_df,
                   stabilized_csv, cleaned_df>>
    /\ UNCHANGED <<pipeVars, batchVars, loadVars, geoVars, calVars, stimVars>>

\* the offsets are added to the columns of undistorted_df itself, which is
\* written to undistorted.csv again; iloc[0] raises on a frame without rows
H_AlignInPlace ==
    /\ hm_script = "hm_nan_undistort_stabilize" /\ hpc = "align"
    /\ IF undistorted_df = <<>>
       THEN hpc' = "error" /\ UNCHANGED <<undistorted_df, undistorted_csv>>
       ELSE /\ undistorted_df' = AlignToReference(undistorted_df)
            /\ undistorted_csv' = AlignToReference(undistorted_df)
            /\ hpc' = "stabilize"
    /\ UNCHANGED <<hm_script, merged_df, camera_cal, hm_nan_stats, hm_df,
                   undistort_result, stabilized_csv, cleaned_df>>
    /\ UNCHANGED <<pipeVars, batchVars, loadVars, geoVars, calVars, stimVars>>

\* stabilized_df = undistorted_df.copy(), aligned the same way and written to
\* stabilized.csv
H_Stabilize ==
    /\ hm_script = "hm_nan_undistort_stabilize" /\ hpc = "stabilize"
    /\ stabilized_csv' = AlignToReference(undistorted_df)
    /\ hpc' = "done"
    /\ UNCHANGED <<hm_script, merged_df, camera_cal, hm_nan_stats, hm_df,
                   undistort_result, undistorted_df, undistorted_csv, cleaned_df>>
    /\ UNCHANGED <<pipeVars, batchVars, loadVars, geoVars, calVars, stimVars>>

-----------------------------------------------------------------------------
(* The loop body of head_mounted_data_cleaner.main for one data directory *)

\* split by condition, NaN statistics, the valid rows of the two conditions
\* one after the other, each under its row label
HC_NanCheck ==
    /\ hm_script = "head_mounted_data_cleaner" /\ hpc = "nan_check"
    /\ hm_nan_stats' = HmNanStats(hm_script, merged_df)
    /\ hm_df' = ValidConcat(hm_script, merged_df)
    /\ hpc' = "clean_trials"
    /\ UNCHANGED <<hm_script, merged_df, camera_cal, undistort_result, undistorted_df,
                   undistorted_csv, stabilized_csv, cleaned_df>>
    /\ UNCHANGED <<pipeVars, batchVars, loadVars, geoVars, calVars, stimVars>>

\* the angle between target and gaze, clean_trials(df), data.csv
HC_CleanTrials ==
    /\ hm_script = "head_mounted_data_cleaner" /\ hpc = "clean_trials"
    /\ hm_df' = WithAngle(hm_df)
    /\ cleaned_df' = CleanerCleanTrials(WithAngle(hm_df),
                                        Unique(Column(hm_df, "segment")),
                                        time_trim, distance_threshold, z_threshold)
    /\ hpc' = "done"
    /\ UNCHANGED <<hm_script, merged_df, camera_cal, hm_nan_stats, undistort_result,
                   undistorted_df, undistorted_csv, stabilized_csv>>
    /\ UNCHANGED <<pipeVars, batchVars, loadVars, geoVars, calVars, stimVars>>

Next ==
    \/ P_Window
    \/ P_NanStats
    \/ P_DropNa
    \/ P_TimeTrim
    \/ SpatialFilter
    \/ C_WindowTrim
    \/ C_NanStats
    \/ C_DropNa
    \/ HM_CleanTrials
    \/ H_NanCheck
    \/ H_Undistort
    \/ H_AlignInPlace
    \/ H_Stabilize
    \/ HC_NanCheck
    \/ HC_CleanTrials

Spec == Init /\ [][Next]_vars

-----------------------------------------------------------------------------
(* The batch loops of hm_nan_undistort_stabilize.main, hm_distance.main and    *)
(* hm_to_deg.main: for data_dir in data_dirs, with no exception handler        *)

Scripts == {"hm_nan_undistort_stabilize", "hm_distance", "hm_to_deg"}

\* a data directory: the state of calibration.xml and whether the CSV files
\* and columns the script reads are all there
Calibrations == {"ok", "missing", "no_matrix", "bad_matrix", "no_distortion"}
DirStates == [calibration : Calibrations, files : BOOLEAN]

\* CameraCalibration.__init__ of the script: the exception it raises, or "none"
CalibrationError(sc, cal) ==
    IF sc = "hm_to_deg" THEN "none"
    ELSE IF cal = "missing" THEN "FileNotFoundError"
    ELSE IF cal = "no_matrix" THEN "AttributeError"
    ELSE IF cal = "bad_matrix" THEN "ValueError"
    ELSE IF cal = "no_distortion" /\ sc = "hm_nan_undistort_stabilize" THEN "ValueError"
    ELSE "none"

\* the exception one iteration of the loop body raises, or "none": the files are
\* read before the calibration is
DirError(sc, d) ==
    IF ~d.files THEN "FileNotFoundError" ELSE CalibrationError(sc, d.calibration)

RECURSIVE SeqsUpTo(_, _)
SeqsUpTo(S, n) ==
    IF n = 0 THEN {<<>>}
    ELSE LET prev == SeqsUpTo(S, n - 1)
         IN  prev \cup {Append(q, x) : q \in {y \in prev : Len(y) = n - 1}, x \in S}

InitBatch ==
    /\ script \in Scripts
    /\ data_dirs \in SeqsUpTo(DirStates, MaxDirs)
    /\ dir_idx = 1
    /\ written = {}
    /\ stats_written = FALSE
    /\ raised = "none"
    /\ bpc = "loop"
    /\ InitPipeIdle
    /\ InitHmIdle
    /\ InitLoadIdle
    /\ InitGeoIdle
    /\ InitCalIdle
    /\ InitStimIdle

\* one iteration whose body runs to its end: the directory's output is written
B_ProcessDir ==
    /\ bpc = "loop" /\ dir_idx <= Len(data_dirs)
    /\ DirError(script, data_dirs[dir_idx]) = "none"
    /\ written' = written \cup {dir_idx}
    /\ dir_idx' = dir_idx + 1
    /\ UNCHANGED <<script, data_dirs, stats_written, raised, bpc>>
    /\ UNCHANGED <<pipeVars, hmVars, loadVars, geoVars, calVars, stimVars>>

\* one iteration whose body raises: nothing catches it, main is left
B_Raise ==
    /\ bpc = "loop" /\ dir_idx <= Len(data_dirs)
    /\ DirError(script, data_dirs[dir_idx]) # "none"
    /\ raised' = DirError(script, data_dirs[dir_idx])
    /\ bpc' = "aborted"
    /\ UNCHANGED <<script, data_dirs, dir_idx, written, stats_written>>
    /\ UNCHANGED <<pipeVars, hmVars, loadVars, geoVars, calVars, stimVars>>

\* the loop is over; hm_nan_undistort_stabilize then writes hm_nan_statistics.csv
B_Finish ==
    /\ bpc = "loop" /\ dir_idx > Len(data_dirs)
    /\ stats_written' = (script = "hm_nan_undistort_stabilize")
    /\ bpc' = "done"
    /\ UNCHANGED <<script, data_dirs, dir_idx, written, raised>>
    /\ UNCHANGED <<pipeVars, hmVars, loadVars, geoVars, calVars, stimVars>>

NextBatch ==
    \/ B_ProcessDir
    \/ B_Raise
    \/ B_Finish

SpecBatch == InitBatch /\ [][NextBatch]_vars

-----------------------------------------------------------------------------
(* load_and_preprocess_data of process/eyelink1000plus_data_processor.py *)

\* a string is the sequence of its characters
Digits == {"0", "1", "2", "3", "4", "5", "6", "7", "8", "9"}

\* CleanId that also drops the digit "0"
CleanIdNoZero(label) == SelectSeq(label, LAMBDA ch : ch \in Digits \ {"0"})

\* "".join(filter(str.isdigit, str(x)))
CleanId(label) == SelectSeq(label, LAMBDA ch : ch \in Digits)

\* the session labels of an export; two of them have the same digits
SessionLabels == <<<<"1", "b">>, <<"p", "1">>, <<"p", "2">>>>
RawTimestamps == {10, 20, 35}

\* a row of the raw export: session q, trial index n, timestamp ts; the gaze
\* and pupil columns follow the timestamp
RawRow(q, n, ts) ==
    [RECORDING_SESSION_LABEL |-> SessionLabels[q], TRIAL_INDEX |-> n, TIMESTAMP |-> ts,
     AVERAGE_GAZE_X |-> 960 + ts, AVERAGE_GAZE_Y |-> 540 - ts,
     RESOLUTION_X |-> 40, RESOLUTION_Y |-> 40,
     LEFT_PUPIL_SIZE |-> 100 * ts, RIGHT_PUPIL_SIZE |-> 100 * ts + 1]

\* the sequences of at most n elements of K in lexicographic order: an export
\* lists its samples by session, trial and time
RECURSIVE SortedTuples(_, _)
SortedTuples(K, n) ==
    IF n = 0 THEN {<<>>}
    ELSE LET prev == SortedTuples(K, n - 1)
             full == {q \in prev : Len(q) = n - 1}
         IN  prev \cup {Append(p[1], p[2]) :
                          p \in {x \in full \X K :
                                   Len(x[1]) = 0 \/ LexLeq(x[1][Len(x[1])], x[2])}}

\* exports that differ in the pupil areas: none, small, the reference area
PupilAreas == {NaN, 0, 1, 11815, 11816}

PupilRow(al, ar) ==
    [RawRow(1, 1, 10) EXCEPT !.LEFT_PUPIL_SIZE = al, !.RIGHT_PUPIL_SIZE = ar]

PupilInputs ==
    {<<PupilRow(a[1], a[2])>> : a \in PupilAreas \X PupilAreas}
    \cup {<<PupilRow(a[1], a[2]), PupilRow(b[1], b[2])>> :
            a \in PupilAreas \X PupilAreas, b \in PupilAreas \X PupilAreas}

\* exports that differ in the session label: digits only, digits among other
\* characters, a leading zero, no digit at all
LabelChoices ==
    {<<"1", "2">>, <<"a", "1", "b", "2">>, <<"0", "7", "_", "0">>, <<"2", "-", "1">>,
     <<"x">>, <<"s", "3", "3">>}

LabelRow(label, n) == [RawRow(1, n, 10) EXCEPT !.RECORDING_SESSION_LABEL = label]

LabelInputs ==
    {<<LabelRow(a, 1), LabelRow(b, 2)>> : a \in LabelChoices, b \in LabelChoices}

RawInputs ==
    {[i \in DOMAIN ks |-> RawRow(ks[i][1], ks[i][2], ks[i][3])] :
       ks \in SortedTuples((DOMAIN SessionLabels) \X (1..MaxTrialIndex) \X RawTimestamps,
                           MaxRawRows) \ {<<>>}}

\* groupby(["RECORDING_SESSION_LABEL", "TRIAL_INDEX"])["TIMESTAMP"].transform("min")
\* for row i of rows
GroupMinTimestamp(rows, i) ==
    SeriesMin(Column(SelectSeq(rows, LAMBDA r :
                         /\ r.RECORDING_SESSION_LABEL = rows[i].RECORDING_SESSION_LABEL
                         /\ r.TRIAL_INDEX = rows[i].TRIAL_INDEX),
                     "TIMESTAMP"))

\* PupDiamSquared without squaring the reference diameter
PupDiamSquaredLinear(area) == IF IsNaN(area) THEN <<NaN, 1>> ELSE <<15 * area, 11815>>

\* the square of EYELINK_REFERENCE_DIAMETER_MM * np.sqrt(area) /
\* np.sqrt(EYELINK_REFERENCE_VALUE), as the fraction <<numerator, denominator>>;
\* a missing area gives a missing diameter, the fraction <<NaN, 1>>
PupDiamSquared(area) == IF IsNaN(area) THEN <<NaN, 1>> ELSE <<225 * area, 11815>>

\* a row of processed_df; an angle is the fraction <<numerator, denominator>>
\* and a pupil diameter is kept by its square, 15^2 * area / 11815
CommonFormatRow(r) ==
    [eye_tracker |-> "EyeLink 1000 Plus",
     participant_id |-> r.RECORDING_SESSION_LABEL,
     trial_number |-> r.TRIAL_INDEX,
     trial_condition |-> TrialCondition(r.TRIAL_INDEX),
     target_x |-> 960, target_y |-> 540,
     gaze_x |-> r.AVERAGE_GAZE_X, gaze_y |-> r.AVERAGE_GAZE_Y,
     gaze_angle_x |-> <<r.AVERAGE_GAZE_X - 960, r.RESOLUTION_X>>,
     gaze_angle_y |-> <<r.AVERAGE_GAZE_Y - 540, r.RESOLUTION_Y>>,
     target_angle_x |-> 0, target_angle_y |-> 0,
     pup_diam_l_squared |-> PupDiamSquared(r.LEFT_PUPIL_SIZE),
     pup_diam_r_squared |-> PupDiamSquared(r.RIGHT_PUPIL_SIZE),
     TIME_FROM_TRIAL_START_MS |-> r.TIME_FROM_TRIAL_START_MS]

\* raw_df = pd.read_csv(file_path)
InitLoad ==
    /\ raw_csv \in RawInputs \cup PupilInputs \cup LabelInputs
    /\ raw_df = raw_csv
    /\ processed_df = <<>>
    /\ lpc = "time_from_trial_start"
    /\ InitPipeIdle
    /\ InitBatchIdle
    /\ InitHmIdle
    /\ InitGeoIdle
    /\ InitCalIdle
    /\ InitStimIdle

\* Calculate time from trial start
L_TimeFromTrialStart ==
    /\ lpc = "time_from_trial_start"
    /\ raw_df' = [i \in DOMAIN raw_df |->
                     raw_df[i] @@ [TIME_FROM_TRIAL_START_MS |->
                         SubNum(raw_df[i].TIMESTAMP, GroupMinTimestamp(raw_df, i))]]
    /\ lpc' = "clean_ids"
    /\ UNCHANGED <<raw_csv, processed_df>>
    /\ UNCHANGED <<pipeVars, batchVars, hmVars, geoVars, calVars, stimVars>>

\* Clean participant IDs to only include digits
L_CleanIds ==
    /\ lpc = "clean_ids"
    /\ raw_df' = [i \in DOMAIN raw_df |->
                     [raw_df[i] EXCEPT !.RECORDING_SESSION_LABEL = CleanId(@)]]
    /\ lpc' = "common_format"
    /\ UNCHANGED <<raw_csv, processed_df>>
    /\ UNCHANGED <<pipeVars, batchVars, hmVars, geoVars, calVars, stimVars>>

\* Rename raw data into common data format
L_CommonFormat ==
    /\ lpc = "common_format"
    /\ processed_df' = [i \in DOMAIN raw_df |-> CommonFormatRow(raw_df[i])]
    /\ lpc' = "done"
    /\ UNCHANGED <<raw_csv, raw_df>>
    /\ UNCHANGED <<pipeVars, batchVars, hmVars, geoVars, calVars, stimVars>>

NextLoad ==
    \/ L_TimeFromTrialStart
    \/ L_CleanIds
    \/ L_CommonFormat

SpecLoad == InitLoad /\ [][NextLoad]_vars

-----------------------------------------------------------------------------
(* Exact fractions with the special values of float64 *)

RECURSIVE Gcd(_, _)
Gcd(a, b) == IF b = 0 THEN a ELSE Gcd(b, a % b)

\* a number is <<numerator, denominator>> in lowest terms, denominator > 0;
\* <<1, 0>> and <<-1, 0>> are +inf and -inf, NaNFrac is nan
NaNFrac == <<0, -1>>

IsNaNFrac(q) == q[2] = -1

IsFinite(q) == q[2] > 0

MkFrac(n, d) ==
    IF d = 0 THEN (IF n = 0 THEN NaNFrac ELSE IF n > 0 THEN <<1, 0>> ELSE <<-1, 0>>)
    ELSE LET sn == IF d < 0 THEN 0 - n ELSE n
             sd == IF d < 0 THEN 0 - d ELSE d
             g == Gcd(Abs(sn), sd)
         IN  <<sn \div g, sd \div g>>

\* a value of a column (an integer or NaN) as a number
Num(v) == IF IsNaN(v) THEN NaNFrac ELSE <<v, 1>>

FracAdd(a, b) ==
    IF IsNaNFrac(a) \/ IsNaNFrac(b) THEN NaNFrac
    ELSE IF a[2] = 0 /\ b[2] = 0 THEN (IF a = b THEN a ELSE NaNFrac)
    ELSE IF a[2] = 0 THEN a
    ELSE IF b[2] = 0 THEN b
    ELSE MkFrac(a[1] * b[2] + b[1] * a[2], a[2] * b[2])

FracMul(a, b) ==
    IF IsNaNFrac(a) \/ IsNaNFrac(b) THEN NaNFrac
    ELSE MkFrac(a[1] * b[1], a[2] * b[2])

\* numpy division: x / 0 is inf or nan, never an exception
FracDiv(a, b) ==
    IF IsNaNFrac(a) \/ IsNaNFrac(b) THEN NaNFrac
    ELSE IF a[2] = 0 /\ b[2] = 0 THEN NaNFrac
    ELSE MkFrac(a[1] * b[2], a[2] * b[1])

-----------------------------------------------------------------------------
(* hm_distance.main and hm_to_deg.main for one data directory: physical     *)
(* dimensions, viewing distance, scaling factor and visual angles            *)

MaxGeoRows == 2     \* rows of a stabilized.csv

\* millimetres are kept in hundredths
SmallDims == <<34631, 13778>>
LargeDims == <<47664, 26811>>

EyeTrackers == {"Pupil Core", "SMI ETG", "Pupil Neon", "Tobii Glasses 2"}
GeoParticipants == {319, 460, 503, 772, 844, 100}
GeoConditions == {"dark", "bright"}

\* RealDimsDistance with the two Pupil Core tests joined by "or"
RealDimsDistanceOr(eye_tracker, participant_id, trial_condition) ==
    IF eye_tracker = "Pupil Core"
    THEN IF participant_id \in {319, 460, 503, 772, 844} \/ trial_condition = "bright"
         THEN LargeDims ELSE SmallDims
    ELSE IF eye_tracker = "Tobii Glasses 2"
    THEN IF trial_condition = "dark" THEN SmallDims ELSE LargeDims
    ELSE IF eye_tracker = "SMI ETG" \/ eye_tracker = "Pupil Neon"
    THEN SmallDims
    ELSE <<NaN, NaN>>

\* real_width_mm, real_height_mm of hm_distance.main
RealDimsDistance(eye_tracker, participant_id, trial_condition) ==
    IF eye_tracker = "Pupil Core"
    THEN IF participant_id \in {319, 460, 503, 772, 844} /\ trial_condition = "bright"
         THEN LargeDims ELSE SmallDims
    ELSE IF eye_tracker = "Tobii Glasses 2"
    THEN IF trial_condition = "dark" THEN SmallDims ELSE LargeDims
    ELSE IF eye_tracker = "SMI ETG" \/ eye_tracker = "Pupil Neon"
    THEN SmallDims
    ELSE <<NaN, NaN>>

\* real_width_mm, real_height_mm of convert_to_visual_angles
RealDimsAngles(eye_tracker, participant_id, trial_condition) ==
    IF eye_tracker = "Pupil Core"
    THEN IF participant_id \in {319, 460, 503, 772, 844} /\ trial_condition = "bright"
         THEN LargeDims ELSE SmallDims
    ELSE IF eye_tracker = "Tobii Glasses 2"
    THEN IF trial_condition = "dark" THEN SmallDims ELSE LargeDims
    ELSE IF eye_tracker = "SMI ETG" \/ eye_tracker = "Pupil Neon"
    THEN SmallDims
    ELSE <<NaN, NaN>>

\* the corner points of the screen in a frame: a rectangle, a quadrilateral
\* with four different edges, one collapsed to a vertical line, one not found
Quads ==
    [rect |-> [top_left_x |-> 0, top_left_y |-> 0, top_right_x |-> 8, top_right_y |-> 0,
               bottom_left_x |-> 0, bottom_left_y |-> 6,
               bottom_right_x |-> 8, bottom_right_y |-> 6],
     skew |-> [top_left_x |-> 0, top_left_y |-> 0, top_right_x |-> 8, top_right_y |-> 0,
               bottom_left_x |-> 0, bottom_left_y |-> 6,
               bottom_right_x |-> 8, bottom_right_y |-> 12],
     line |-> [top_left_x |-> 0, top_left_y |-> 0, top_right_x |-> 0, top_right_y |-> 0,
               bottom_left_x |-> 0, bottom_left_y |-> 6,
               bottom_right_x |-> 0, bottom_right_y |-> 6],
     none |-> [top_left_x |-> NaN, top_left_y |-> NaN, top_right_x |-> NaN,
               top_right_y |-> NaN, bottom_left_x |-> NaN, bottom_left_y |-> NaN,
               bottom_right_x |-> NaN, bottom_right_y |-> NaN]]

\* the target of every frame and the gaze positions: on the target, off it
GeoTarget == <<4, 3>>
GeoCases ==
    {<<"rect", <<4, 3>>>>, <<"rect", <<7, 7>>>>, <<"skew", <<7, 7>>>>,
     <<"line", <<4, 3>>>>, <<"line", <<1, 3>>>>, <<"none", <<7, 7>>>>}

FocalLengths == {0, 2}

\* a row of stabilized.csv
GeoRow(dir, i, cond, case) ==
    [eye_tracker |-> dir.eye_tracker, participant_id |-> dir.participant_id,
     frame |-> i, trial_condition |-> cond,
     target_x |-> GeoTarget[1], target_y |-> GeoTarget[2],
     gaze_x |-> case[2][1], gaze_y |-> case[2][2]] @@ Quads[case[1]]

GeoInputs(dir) ==
    UNION {{[i \in 1..n |-> GeoRow(dir, i, f[i][1], f[i][2])] :
              f \in [1..n -> GeoConditions \X GeoCases]} : n \in 1..MaxGeoRows}

\* np.sqrt((x2 - x1) ** 2 + (y2 - y1) ** 2): the corner points are chosen so
\* that the length is a whole number
EuclidLen(x1, y1, x2, y2) ==
    IF IsNaN(x1) \/ IsNaN(y1) \/ IsNaN(x2) \/ IsNaN(y2) THEN NaNFrac
    ELSE <<CHOOSE n \in 0..20 : n * n = Sq(x2 - x1) + Sq(y2 - y1), 1>>

top_width(row) ==
    EuclidLen(row.top_right_x, row.top_right_y, row.top_left_x, row.top_left_y)
bottom_width(row) ==
    EuclidLen(row.bottom_right_x, row.bottom_right_y, row.bottom_left_x, row.bottom_left_y)
left_height(row) ==
    EuclidLen(row.bottom_left_x, row.bottom_left_y, row.top_left_x, row.top_left_y)
right_height(row) ==
    EuclidLen(row.bottom_right_x, row.bottom_right_y, row.top_right_x, row.top_right_y)

\* CalculateDistances with the height estimate taken from the width edges
CalculateDistancesWidthOnly(focal, dims, row) ==
    LET avg_width == FracDiv(FracAdd(top_width(row), bottom_width(row)), <<2, 1>>)
    IN  <<FracDiv(<<dims[1] * focal, 1>>, avg_width),
          FracDiv(<<dims[2] * focal, 1>>, avg_width)>>

\* calculate_distances: <<distance_from_width, distance_from_height>>
CalculateDistances(focal, dims, row) ==
    LET avg_width == FracDiv(FracAdd(top_width(row), bottom_width(row)), <<2, 1>>)
        avg_height == FracDiv(FracAdd(left_height(row), right_height(row)), <<2, 1>>)
    IN  <<FracDiv(<<dims[1] * focal, 1>>, avg_width),
          FracDiv(<<dims[2] * focal, 1>>, avg_height)>>

\* the record hm_distance.main appends for a row
DistanceRecord(dir, focal, row) ==
    LET dims == RealDimsDistance(dir.eye_tracker, dir.participant_id, row.trial_condition)
        d == CalculateDistances(focal, dims, row)
    IN  [frame |-> row.frame,
         distance_from_width |-> d[1],
         distance_from_height |-> d[2],
         distance_average |-> FracDiv(FracAdd(d[1], d[2]), <<2, 1>>)]

\* CalculateScalingFactor as the ratio of the mean dimension to the mean edge
CalculateScalingFactorOfMeans(row, dims) ==
    FracDiv(<<dims[1] + dims[2], 1>>,
            FracAdd(FracAdd(top_width(row), bottom_width(row)),
                    FracAdd(left_height(row), right_height(row))))

\* calculate_scaling_factor: np.mean of the four edge estimates
CalculateScalingFactor(row, dims) ==
    LET scale_top == FracDiv(<<dims[1], 1>>, top_width(row))
        scale_bottom == FracDiv(<<dims[1], 1>>, bottom_width(row))
        scale_left == FracDiv(<<dims[2], 1>>, left_height(row))
        scale_right == FracDiv(<<dims[2], 1>>, right_height(row))
    IN  FracDiv(FracAdd(FracAdd(scale_top, scale_bottom),
                        FracAdd(scale_left, scale_right)), <<4, 1>>)

\* np.degrees(np.arctan(mm / distance_mm)): an angle is kept by its tangent;
\* the angle is 0 exactly when the tangent is 0 and nan exactly when it is nan
VisualAngle(px, center, scale, distance_mm) ==
    FracDiv(FracMul(Num(px - center), scale), distance_mm)

\* VisualAngle of the target measured from the corner of the image
VisualAngleFromOrigin(px, center, scale, distance_mm) ==
    FracDiv(FracMul(Num(px), scale), distance_mm)

\* the target angle of a row: VisualAngle of the target about the centre
TargetAngle(px, center, scale, distance_mm) ==
    VisualAngle(px, center, scale, distance_mm)

\* the row of df after convert_to_visual_angles
ConvertRow(row) ==
    LET dims == RealDimsAngles(row.eye_tracker, row.participant_id, row.trial_condition)
        scale == CalculateScalingFactor(row, dims)
        center_x == row.target_x
        center_y == row.target_y
    IN  row @@ [gaze_angle_x |-> VisualAngle(row.gaze_x, center_x, scale, row.distance_average),
                gaze_angle_y |-> VisualAngle(row.gaze_y, center_y, scale, row.distance_average),
                target_angle_x |-> TargetAngle(row.target_x, center_x, scale,
                                               row.distance_average),
                target_angle_y |-> TargetAngle(row.target_y, center_y, scale,
                                               row.distance_average)]

\* the difference a - b of two angles, by the tangent of the difference:
\* (ta - tb) / (1 + ta * tb), the cotangent against a right angle
AngleSub(a, b) ==
    IF IsNaNFrac(a) \/ IsNaNFrac(b) THEN NaNFrac
    ELSE IF b = <<0, 1>> THEN a
    ELSE IF a[2] = 0 /\ b[2] = 0 THEN (IF a = b THEN <<0, 1>> ELSE NaNFrac)
    ELSE IF a[2] = 0 THEN MkFrac(a[1] * b[2], b[1])
    ELSE IF b[2] = 0 THEN MkFrac(0 - a[2], a[1])
    ELSE FracDiv(FracAdd(a, FracMul(<<-1, 1>>, b)), FracAdd(<<1, 1>>, FracMul(a, b)))

\* calculate_euclidean_distance of hm_to_deg.py: the two differences whose
\* squares are summed under the root
DistanceComponents(row) ==
    <<AngleSub(row.gaze_angle_x, row.target_angle_x),
      AngleSub(row.gaze_angle_y, row.target_angle_y)>>

InitGeo ==
    /\ geo_dir \in [eye_tracker : EyeTrackers, participant_id : GeoParticipants]
    /\ stabilized_rows \in GeoInputs(geo_dir)
    /\ focal_length \in FocalLengths
    /\ distance_df = <<>>
    /\ angles_df = <<>>
    /\ gpc = "distance"
    /\ InitPipeIdle
    /\ InitBatchIdle
    /\ InitHmIdle
    /\ InitLoadIdle
    /\ InitCalIdle
    /\ InitStimIdle

\* hm_distance.main: the rows of distance.csv
G_Distances ==
    /\ gpc = "distance"
    /\ distance_df' = [i \in DOMAIN stabilized_rows |->
                          DistanceRecord(geo_dir, focal_length, stabilized_rows[i])]
    /\ gpc' = "merge"
    /\ UNCHANGED <<geo_dir, stabilized_rows, focal_length, angles_df>>
    /\ UNCHANGED <<pipeVars, batchVars, hmVars, loadVars, calVars, stimVars>>

\* hm_to_deg.main: stabilized.csv with the distance_average of distance.csv
G_Merge ==
    /\ gpc = "merge"
    /\ angles_df' =
          IF /\ Len(stabilized_rows) = Len(distance_df)
             /\ Column(stabilized_rows, "frame") = Column(distance_df, "frame")
          THEN [i \in DOMAIN stabilized_rows |->
                  stabilized_rows[i] @@
                      [distance_average |-> distance_df[i].distance_average]]
          ELSE stabilized_rows
    /\ gpc' = "convert"
    /\ UNCHANGED <<geo_dir, stabilized_rows, focal_length, distance_df>>
    /\ UNCHANGED <<pipeVars, batchVars, hmVars, loadVars, calVars, stimVars>>

\* hm_to_deg.main: df = convert_to_visual_angles(df)
G_Convert ==
    /\ gpc = "convert"
    /\ angles_df' = [i \in DOMAIN angles_df |-> ConvertRow(angles_df[i])]
    /\ gpc' = "done"
    /\ UNCHANGED <<geo_dir, stabilized_rows, focal_length, distance_df>>
    /\ UNCHANGED <<pipeVars, batchVars, hmVars, loadVars, calVars, stimVars>>

NextGeo ==
    \/ G_Distances
    \/ G_Merge
    \/ G_Convert

\* the normalizers of the screen-based and of the head-mounted devices
InitNormalize == InitLoad \/ InitGeo

NextNormalize == NextLoad \/ NextGeo

SpecNormalize == InitNormalize /\ [][NextNormalize]_vars

-----------------------------------------------------------------------------
(* CameraCalibration(calibration_file) of hm_nan_undistort_stabilize.py and  *)
(* of hm_distance.py                                                          *)

CalClasses == {"hm_nan_undistort_stabilize", "hm_distance"}

\* the text of <cameraMatrix><data>: no such element, an element without
\* text, white space only, a word that is no number, eight numbers, nine
MatrixTexts == {"absent", "empty", "blank", "non_numeric", "eight_values", "nine_values"}

\* the text of <distCoeff><data>
DistTexts == {"absent", "empty", "blank", "non_numeric", "values"}

\* the calibration file: a file that is not well-formed XML has no elements
CalSources ==
    {src \in [exists : BOOLEAN, well_formed : BOOLEAN, matrix : MatrixTexts,
              dist : DistTexts] :
       (~src.exists \/ ~src.well_formed) => (src.matrix = "absent" /\ src.dist = "absent")}

\* matrix_elem.text.split(), map(float, ...), reshape(3, 3)
ReadMatrix(src) ==
    IF src.matrix \in {"absent", "empty"} THEN "AttributeError"
    ELSE IF src.matrix \in {"blank", "non_numeric", "eight_values"} THEN "ValueError"
    ELSE "matrix"

\* the distortion coefficients of hm_nan_undistort_stabilize.py
ReadDistortion(src) ==
    IF src.dist \in {"absent", "empty"} THEN "ValueError"
    ELSE IF src.dist = "non_numeric" THEN "ValueError"
    ELSE "coefficients"

\* __init__: the exception that leaves it, or "constructed"
Construct(class, src) ==
    IF ~src.exists THEN "FileNotFoundError"
    ELSE IF ~src.well_formed THEN "ParseError"
    ELSE IF ReadMatrix(src) # "matrix" THEN ReadMatrix(src)
    ELSE IF class = "hm_distance" THEN "constructed"
    ELSE IF ReadDistortion(src) # "coefficients" THEN ReadDistortion(src)
    ELSE "constructed"

InitCal ==
    /\ cal_class \in CalClasses
    /\ cal_source \in CalSources
    /\ cal_result = "none"
    /\ cpc = "construct"
    /\ InitPipeIdle
    /\ InitBatchIdle
    /\ InitHmIdle
    /\ InitLoadIdle
    /\ InitGeoIdle
    /\ InitStimIdle

\* camera_cal = CameraCalibration(data_dir / "calibration.xml")
K_Construct ==
    /\ cpc = "construct"
    /\ cal_result' = Construct(cal_class, cal_source)
    /\ cpc' = "done"
    /\ UNCHANGED <<cal_class, cal_source>>
    /\ UNCHANGED <<pipeVars, batchVars, hmVars, loadVars, geoVars, stimVars>>

NextCal == K_Construct

SpecCal == InitCal /\ [][NextCal]_vars

-----------------------------------------------------------------------------
(* The presentation loop of run_experiments/display_stimulus.py *)

MaxElapsed == 3     \* time steps counted on one screen

\* the values load_parameters can return for the three durations
DurationChoices == {0, 1, 2}

\* one block of a dark and a bright recording
Block ==
    <<<<"black_background", "dark_rest_duration">>,
      <<"black_with_stimulus", "recording_duration">>,
      <<"rest_page", "none">>,
      <<"white_background", "bright_rest_duration">>,
      <<"white_with_stimulus", "recording_duration">>>>

\* states: the image of each screen and the setting its duration comes from
states ==
    <<<<"instruction_page", "none">>>> \o Block \o <<<<"rest_page", "none">>>>
        \o Block \o <<<<"rest_page", "none">>>> \o Block \o <<<<"end_page", "none">>>>

\* duration_seconds of the screen with index cs (from 0)
duration_seconds(cs) ==
    IF states[cs + 1][2] = "none" THEN -1 ELSE durations[states[cs + 1][2]]

\* the values of cv2.waitKey(1) & 0xFF: no key, the space bar, q, another key
Keys == {255, 32, 113, 97}

\* (time.time() - start_time) >= duration_seconds, for a screen with a duration
DurationElapsed(cs) == duration_seconds(cs) # -1 /\ elapsed >= duration_seconds(cs)

\* SpaceBreaks on every screen
SpaceBreaksAlways(k, cs) == k = 32

\* key == 32 and duration_seconds == -1
SpaceBreaks(k, cs) == k = 32 /\ duration_seconds(cs) = -1

\* NextState that passes over the screen after the next
NextStateSkip(cs) == cs + 2

\* current_state += 1
NextState(cs) == cs + 1

InitStim ==
    /\ durations \in [{"dark_rest_duration", "bright_rest_duration",
                        "recording_duration"} -> DurationChoices]
    /\ current_state = 0
    /\ elapsed = 0
    /\ shown = <<>>
    /\ key = 255
    /\ spc = "show"
    /\ InitPipeIdle
    /\ InitBatchIdle
    /\ InitHmIdle
    /\ InitLoadIdle
    /\ InitGeoIdle
    /\ InitCalIdle

\* while current_state < len(states): start_time = time.time(); cv2.imshow
S_Show ==
    /\ spc = "show"
    /\ current_state < Len(states)
    /\ elapsed' = 0
    /\ shown' = Append(shown, current_state)
    /\ spc' = "poll"
    /\ UNCHANGED <<durations, current_state, key>>
    /\ UNCHANGED <<pipeVars, batchVars, hmVars, loadVars, geoVars, calVars>>

\* the inner loop finds the duration elapsed: break, current_state += 1
S_Timeout ==
    /\ spc = "poll"
    /\ DurationElapsed(current_state)
    /\ current_state' = NextState(current_state)
    /\ spc' = "show"
    /\ UNCHANGED <<durations, elapsed, shown, key>>
    /\ UNCHANGED <<pipeVars, batchVars, hmVars, loadVars, geoVars, calVars>>

\* one pass of the inner loop that reaches cv2.waitKey(1), during which dt
\* time steps pass
S_Poll ==
    /\ spc = "poll"
    /\ ~DurationElapsed(current_state)
    /\ \E k \in Keys, dt \in {0, 1} :
          /\ key' = k
          /\ elapsed' = IF elapsed + dt > MaxElapsed THEN MaxElapsed ELSE elapsed + dt
          /\ IF SpaceBreaks(k, current_state)
             THEN current_state' = NextState(current_state) /\ spc' = "show"
             ELSE IF k = 113
             THEN current_state' = current_state /\ spc' = "exited"
             ELSE current_state' = current_state /\ spc' = "poll"
    /\ UNCHANGED <<durations, shown>>
    /\ UNCHANGED <<pipeVars, batchVars, hmVars, loadVars, geoVars, calVars>>

\* the outer loop ends: cv2.destroyAllWindows()
S_Finish ==
    /\ spc = "show"
    /\ ~(current_state < Len(states))
    /\ spc' = "done"
    /\ UNCHANGED <<durations, current_state, elapsed, shown, key>>
    /\ UNCHANGED <<pipeVars, batchVars, hmVars, loadVars, geoVars, calVars>>

NextStim ==
    \/ S_Show
    \/ S_Timeout
    \/ S_Poll
    \/ S_Finish

SpecStim == InitStim /\ [][NextStim]_vars

-----------------------------------------------------------------------------
(* Properties: vocabulary *)

EyeLink == variant \in {"process", "preprocess"}

\* the window extraction has run
WindowDone == EyeLink /\ pc \notin {"window", "window_trim"}

\* the edge trimming has run and time_trimmed_df still holds its result
TrimJustDone ==
    \/ variant = "process" /\ pc \in {"spatial", "done", "error"}
    \/ variant = "preprocess" /\ pc = "nan_stats"

\* the edge trimming has run
TrimDone ==
    \/ variant = "process" /\ pc \in {"spatial", "done", "error"}
    \/ variant = "preprocess" /\ pc \in {"nan_stats", "dropna", "spatial", "done", "error"}

KeySet(rows) == {GroupKey(r) : r \in Range(rows)}

TimesOf(rows) == {r.time : r \in Range(rows)} \ {NaN}

\* |v - mean| / std >= zthr over the values vals, the quotient being defined
\* (std > 0); mean = s / n and std = sqrt(n * q - s^2) / n
ZAtLeast(vals, v, zthr) ==
    LET n == Len(vals)
        s == SeqSum(vals)
        q == SeqSum([i \in DOMAIN vals |-> vals[i] * vals[i]])
    IN  /\ n * q - s * s > 0
        /\ (n * v - s) * (n * v - s) >= zthr * zthr * (n * q - s * s)

AllEqual(vals) == \A i, j \in DOMAIN vals : vals[i] = vals[j]

\* the rows of rows at the positions I, in their order
RowsAt(rows, I) ==
    LET pos == SelectSeq([i \in 1..Len(rows) |-> i], LAMBDA i : i \in I)
    IN  [j \in DOMAIN pos |-> rows[pos[j]]]

TrialRows(rows, tr) == SelectSeq(rows, LAMBDA r : r.trial_number = tr)

\* a is b with some of its elements left out
RECURSIVE IsSubsequence(_, _)
IsSubsequence(a, b) ==
    IF a = <<>> THEN TRUE
    ELSE IF b = <<>> THEN FALSE
    ELSE IF Head(a) = Head(b) THEN IsSubsequence(Tail(a), Tail(b))
    ELSE IsSubsequence(a, Tail(b))

-----------------------------------------------------------------------------
(* C1 *)

\* C1 as stated: process_and_clean_data applies window extraction, edge trimming,
\* NaN removal, distance filtering, z-score filtering in this order for every
\* trial, so the min/max time the edge trimming of a trial takes its bounds
\* from are those of the windowed rows, before any row with a NaN in a critical
\* column is dropped.
C1_TrimBeforeDropNa ==
    (EyeLink /\ TrimDone) =>
        \A k \in KeySet(trim_input) :
            /\ SetMin(TimesOf(GroupRows(trim_input, k)))
                 = SetMin(TimesOf(GroupRows(window_snapshot, k)))
            /\ SetMax(TimesOf(GroupRows(trim_input, k)))
                 = SetMax(TimesOf(GroupRows(window_snapshot, k)))

\* C1 amended: the cleaner (preprocess) trims the windowed rows before it drops
\* the rows with NaN; the processor (process) drops the rows with NaN first and
\* takes the trim bounds from the windowed rows without NaN; in both, the
\* distance step follows and the z-score step is last, and no row with a NaN
\* reaches the spatial steps.
C1_StepOrder ==
    /\ (variant = "preprocess" /\ TrimDone) => trim_input = window_snapshot
    /\ (variant = "process" /\ TrimDone) =>
           trim_input = SelectSeq(window_snapshot, LAMBDA r : ~HasNaN(r))
    /\ (variant = "process" /\ pc = "time_trim") =>
           /\ time_trimmed_df = <<>>
           /\ \A r \in Range(five_second_windows) : ~HasNaN(r)
    /\ (EyeLink /\ pc \in {"spatial", "done"}) =>
           \A r \in Range(time_trimmed_df) : ~HasNaN(r)
    /\ (EyeLink /\ pc = "spatial") => distance_filtered_df = <<>> /\ filtered_df = <<>>
    /\ (EyeLink /\ pc = "done") =>
           /\ Range(distance_filtered_df) \subseteq Range(time_trimmed_df)
           /\ Range(filtered_df) \subseteq Range(distance_filtered_df)

\* the processor has trimmed a trial whose earliest windowed row has a NaN, so
\* its trim bounds differ from those of the windowed rows
C1_Witness ==
    /\ variant = "process" /\ pc = "done"
    /\ \E k \in KeySet(trim_input) :
         /\ SetMin(TimesOf(GroupRows(trim_input, k)))
              > SetMin(TimesOf(GroupRows(window_snapshot, k)))
         /\ Len(GroupRows(time_trimmed_df, k)) > 0

-----------------------------------------------------------------------------
(* C2 *)

\* C2: in the batch loops a failure in one data directory only skips that
\* directory: once main has ended, the output of every directory that can be
\* processed has been written, wherever the failing directory is in the list.
C2_FailureIsolated ==
    bpc \in {"done", "aborted"} =>
        \A i \in DOMAIN data_dirs :
            DirError(script, data_dirs[i]) = "none" => i \in written

-----------------------------------------------------------------------------
(* C3 *)

\* C3: a trial with fewer than 2 samples left by the distance step passes the
\* z-score step unchanged: no sample is removed (a single sample is kept).
C3_FewSamplesPass ==
    pc = "done" =>
        \A k \in KeySet(distance_filtered_df) :
            Len(GroupRows(distance_filtered_df, k)) < 2 =>
                GroupRows(filtered_df, k) = GroupRows(distance_filtered_df, k)

-----------------------------------------------------------------------------
(* C4 *)

\* C4: when the 2 or more distance-filtered samples of a trial are all equal on
\* an axis column, the z-score step excludes no sample on account of that axis:
\* a sample that no other axis excludes is retained.
C4_ZeroVarianceKeeps ==
    pc = "done" =>
        \A k \in KeySet(distance_filtered_df) :
            LET g == GroupRows(distance_filtered_df, k)
                xs == Column(g, "gaze_angle_x")
                ys == Column(g, "gaze_angle_y")
            IN  (Len(g) >= 2 /\ (AllEqual(xs) \/ AllEqual(ys))) =>
                    GroupRows(filtered_df, k) =
                        SelectSeq(g, LAMBDA r :
                            /\ ~ZAtLeast(xs, r.gaze_angle_x, z_threshold)
                            /\ ~ZAtLeast(ys, r.gaze_angle_y, z_threshold))

-----------------------------------------------------------------------------
(* C5 *)

\* C5: in the z-score step a distance-filtered sample of a trial is dropped if
\* and only if |value - trial mean| / trial standard deviation >= zThreshold on
\* at least one of gaze_angle_x, gaze_angle_y, the statistics being those of the
\* trial's distance-filtered samples on that axis.
C5_DroppedIffZAtLeast ==
    pc = "done" =>
        \A k \in KeySet(distance_filtered_df) :
            LET g == GroupRows(distance_filtered_df, k)
                xs == Column(g, "gaze_angle_x")
                ys == Column(g, "gaze_angle_y")
            IN  GroupRows(filtered_df, k) =
                    SelectSeq(g, LAMBDA r :
                        ~(\/ ZAtLeast(xs, r.gaze_angle_x, z_threshold)
                          \/ ZAtLeast(ys, r.gaze_angle_y, z_threshold)))

-----------------------------------------------------------------------------
(* C6 *)

\* the input is a ten-sample trial with nine x values within 1 of the centre 0
\* and the tenth 5 away from it
IsOutlierTrial ==
    /\ Len(df) = 10 /\ time_trim = 0
    /\ \E a \in 0..9 : \E b \in 0..(9 - a) : \E o \in {-5, 5} : df = OutlierTrial(a, b, o)

NineEqual == \A i, j \in 1..9 : df[i].gaze_angle_x = df[j].gaze_angle_x

-----------------------------------------------------------------------------
(* C7 *)

\* C7: in every trial the samples the distance step retains are exactly those
\* with sqrt((gaze_angle_x - target_angle_x)^2 + (gaze_angle_y - target_angle_y)^2)
\* <= distanceThreshold: a sample at the threshold is kept, every removed sample
\* is beyond it.
C7_DistanceFilter ==
    pc = "done" =>
        \A k \in KeySet(time_trimmed_df) :
            GroupRows(distance_filtered_df, k) =
                SelectSeq(GroupRows(time_trimmed_df, k), LAMBDA r :
                    (r.gaze_angle_x - r.target_angle_x) * (r.gaze_angle_x - r.target_angle_x)
                      + (r.gaze_angle_y - r.target_angle_y) * (r.gaze_angle_y - r.target_angle_y)
                    <= distance_threshold * distance_threshold)

\* a trial has kept a sample exactly at the threshold and lost one beyond it
C7_Witness ==
    /\ pc = "done"
    /\ \E r \in Range(distance_filtered_df) :
         r.gaze_angle_x * r.gaze_angle_x + r.gaze_angle_y * r.gaze_angle_y
           = distance_threshold * distance_threshold
    /\ \E r \in Range(time_trimmed_df) : r \notin Range(distance_filtered_df)

-----------------------------------------------------------------------------
(* C8 *)

\* C8: for every (participant, trial) group with maximum time T the window step
\* keeps exactly the samples with T - trialDurationMs <= t <= T, both bounds
\* included, and a trial no longer than trialDurationMs is kept whole.
C8_WindowExact ==
    WindowDone =>
        \A k \in KeySet(df) :
            LET g == GroupRows(df, k)
            IN  TimesOf(g) # {} =>
                  LET T == SetMax(TimesOf(g))
                  IN  /\ GroupRows(window_snapshot, k) =
                           SelectSeq(g, LAMBDA r :
                               /\ r.time # NaN
                               /\ T - trial_duration_ms <= r.time
                               /\ r.time <= T)
                      /\ (T - SetMin(TimesOf(g)) <= trial_duration_ms) =>
                           GroupRows(window_snapshot, k) =
                               SelectSeq(g, LAMBDA r : r.time # NaN)

\* a group has kept a sample exactly trialDurationMs before its last one and
\* lost an earlier sample
C8_Witness ==
    /\ WindowDone
    /\ \E k \in KeySet(df) :
         LET g == GroupRows(df, k)
         IN  /\ TimesOf(g) # {}
             /\ \E r \in Range(GroupRows(window_snapshot, k)) :
                   r.time = SetMax(TimesOf(g)) - trial_duration_ms
             /\ \E r \in Range(g) :
                   r.time # NaN /\ r \notin Range(GroupRows(window_snapshot, k))

-----------------------------------------------------------------------------
(* C9 *)

\* C9: a trial whose temporal window holds no sample is dropped with a warning
\* and gives no row to the output; this is not fatal, the other trials are
\* processed.
C9_EmptyWindowWarned ==
    WindowDone =>
        /\ \A k \in KeySet(df) :
              GroupRows(window_snapshot, k) = <<>> =>
                  /\ k \in warnings
                  /\ GroupRows(filtered_df, k) = <<>>
        /\ pc # "error"

-----------------------------------------------------------------------------
(* C10 *)

\* C10: with m, M the minimum and maximum time of the samples of a trial that
\* the trimming is given (samples of the window, not of the whole trial) and
\* R = M - m, the trimming keeps exactly the samples with
\* m + R * (timeTrim / 2) / 100 <= t <= M - R * (timeTrim / 2) / 100; with
\* timeTrim = 20 and evenly spaced timestamps from 0 to 1000 the samples kept
\* are those in [100, 900].
C10_TrimExact ==
    (EyeLink /\ TrimJustDone) =>
        /\ \A r \in Range(trim_input) : r \in Range(window_snapshot)
        /\ \A k \in KeySet(trim_input) :
              LET g == GroupRows(trim_input, k)
                  m == SetMin(TimesOf(g))
                  M == SetMax(TimesOf(g))
              IN  GroupRows(time_trimmed_df, k) =
                      SelectSeq(g, LAMBDA r :
                          /\ 200 * r.time >= 200 * m + (M - m) * time_trim
                          /\ 200 * r.time <= 200 * M - (M - m) * time_trim)
        /\ KeySet(time_trimmed_df) \subseteq KeySet(trim_input)
        /\ (time_trim = 20 /\ \E n \in {1, 2, 4, 5, 8, 10} : df = EvenTrial(n)) =>
              time_trimmed_df = SelectSeq(df, LAMBDA r : 100 <= r.time /\ r.time <= 900)

\* the 11 evenly spaced samples from 0 to 1000 have been trimmed to the 9
\* samples from 100 to 900
C10_Witness ==
    /\ EyeLink /\ TrimJustDone
    /\ time_trim = 20 /\ df = EvenTrial(10)
    /\ Len(time_trimmed_df) = 9
    /\ time_trimmed_df[1].time = 100 /\ time_trimmed_df[9].time = 900

-----------------------------------------------------------------------------
(* C11 *)

\* C11: with f and l the smallest and largest row index of a trial, the index
\* trimming of clean_trials keeps exactly the trial's rows whose index i has
\* f + trunc((l - f) * 12.5 / 100) <= i <= l - trunc((l - f) * 12.5 / 100)
\* (timeTrim / 2 percent of the index range, truncated, cut at each end), and a
\* trial whose indices are contiguous keeps at least one row.
C11_IndexTrim ==
    (variant = "hm_to_deg" /\ pc = "done") =>
        \A tr \in {r.trial_number : r \in Range(df)} :
            LET idx == {i \in DOMAIN df : df[i].trial_number = tr}
                f == SetMin(idx)
                l == SetMax(idx)
                cut == ((l - f) * time_trim) \div 200
                kept == {i \in idx : f + cut <= i /\ i <= l - cut}
            IN  /\ TrialRows(time_trimmed_df, tr) = RowsAt(df, kept)
                /\ time_trim = 25 => cut = ((l - f) * 125) \div 1000
                /\ idx = f..l =>
                      /\ TrialRows(time_trimmed_df, tr) # <<>>
                      /\ Len(TrialRows(time_trimmed_df, tr)) = (l - f + 1) - 2 * cut

\* a trial of 17 frames has lost its first two and its last two frames
C11_Witness ==
    /\ variant = "hm_to_deg" /\ pc = "done" /\ time_trim = 25
    /\ Len(TrialRows(df, 1)) = 17
    /\ Len(TrialRows(time_trimmed_df, 1)) = 13
    /\ TrialRows(time_trimmed_df, 1)[1] = TrialRows(df, 1)[3]
    /\ TrialRows(time_trimmed_df, 1)[13] = TrialRows(df, 1)[15]

-----------------------------------------------------------------------------
(* C12 *)

\* C12: no row returned by process_and_clean_data has a NaN in any of gaze_x,
\* gaze_y, gaze_angle_x, gaze_angle_y, pup_diam_l, pup_diam_r, and the removal
\* step drops a row only if it has a NaN in one of these columns; for
\* head-mounted data no row written after the gaze-validity check has a NaN in
\* gaze_pos_vid_x or gaze_pos_vid_y.
C12_NaNRemoved ==
    [][/\ (variant \in {"process", "preprocess"} /\ pc' = "done") =>
              \A r \in Range(filtered_df') :
                  ~r.other_nan /\ r.gaze_angle_x # NaN /\ r.gaze_angle_y # NaN
       /\ (variant = "process" /\ pc = "dropna" /\ pc' # pc) =>
              five_second_windows' =
                  SelectSeq(five_second_windows, LAMBDA r :
                      ~(r.other_nan \/ r.gaze_angle_x = NaN \/ r.gaze_angle_y = NaN))
       /\ (variant = "preprocess" /\ pc = "dropna" /\ pc' # pc) =>
              time_trimmed_df' =
                  SelectSeq(time_trimmed_df, LAMBDA r :
                      ~(r.other_nan \/ r.gaze_angle_x = NaN \/ r.gaze_angle_y = NaN))
       /\ \A r \in Range(undistorted_csv') \cup Range(stabilized_csv') :
              r.gaze_x # NaN /\ r.gaze_y # NaN
       /\ \A r \in Range(cleaned_df') :
              r.gaze_pos_vid_x # NaN /\ r.gaze_pos_vid_y # NaN
      ]_vars

\* a run has returned rows although a row of a window had a missing value only
\* outside the angle columns
C12_Witness ==
    /\ EyeLink /\ pc = "done"
    /\ filtered_df # <<>>
    /\ \E r \in Range(window_snapshot) :
          r.other_nan /\ r.gaze_angle_x # NaN /\ r.gaze_angle_y # NaN

-----------------------------------------------------------------------------
(* C13 *)

\* C13: the NaN statistics table returned by process_and_clean_data holds one
\* row for each (participant, condition) pair that has rows, plus one overall
\* "ALL" row whose totalRows and nanRows are the sums over the other rows, and
\* the statistics are computed before the rows with NaN are removed.
C13_StatsTable ==
    (EyeLink /\ pc = "done") =>
        LET pairRows == SelectSeq(nan_stats_df, LAMBDA st : st.condition # "ALL")
            allRows == SelectSeq(nan_stats_df, LAMBDA st : st.condition = "ALL")
            counted == IF variant = "process" THEN window_snapshot
                       ELSE TrimAll(window_snapshot, GroupKeys(window_snapshot), time_trim)
            pairs == {<<r.participant_id, r.trial_condition>> : r \in Range(counted)}
        IN  /\ {<<st.participant_id, st.condition>> : st \in Range(pairRows)} = pairs
            /\ Len(pairRows) = Cardinality(pairs)
            /\ Len(allRows) = 1
            /\ allRows[1].total_rows =
                  SeqSum([i \in DOMAIN pairRows |-> pairRows[i].total_rows])
            /\ allRows[1].nan_rows =
                  SeqSum([i \in DOMAIN pairRows |-> pairRows[i].nan_rows])
            /\ allRows[1].total_rows = Len(counted)

-----------------------------------------------------------------------------
(* C14 *)

\* st.nan_percentage is nan_rows / total_rows * 100, or 0 when total_rows = 0
PercentageRight(st) ==
    /\ st.nan_percentage[2] > 0
    /\ IF st.total_rows = 0 THEN st.nan_percentage[1] = 0
       ELSE st.nan_percentage[1] * st.total_rows
              = st.nan_rows * 100 * st.nan_percentage[2]

\* C14: in every recorded statistics row totalRows is the number of rows of the
\* group, nanRows the number of those with a NaN in a critical column, so
\* 0 <= nanRows <= totalRows, and nanPercentage = nanRows / totalRows * 100, or
\* 0 when totalRows = 0; 100 rows of which 17 have a NaN give nanRows = 17 and
\* nanPercentage = 17.
C14_StatsAccounting ==
    /\ (variant = "preprocess" /\ pc = "dropna") =>
          /\ \A st \in Range(nan_stats_df) :
                LET group == SelectSeq(time_trimmed_df, LAMBDA r :
                                 st.condition = "ALL"
                                   \/ (r.participant_id = st.participant_id
                                         /\ r.trial_condition = st.condition))
                IN  /\ st.total_rows = Len(group)
                    /\ st.nan_rows =
                          Cardinality({i \in DOMAIN group :
                              \/ group[i].other_nan
                              \/ group[i].gaze_angle_x = NaN
                              \/ group[i].gaze_angle_y = NaN})
                    /\ 0 <= st.nan_rows /\ st.nan_rows <= st.total_rows
                    /\ PercentageRight(st)
          /\ df = HundredTrial =>
                \E st \in Range(nan_stats_df) :
                    /\ st.condition = "ALL" /\ st.total_rows = 100 /\ st.nan_rows = 17
                    /\ st.nan_percentage[1] = 17 * st.nan_percentage[2]
    /\ (hm_script = "head_mounted_data_cleaner" /\ hpc \in {"clean_trials", "done"}) =>
          /\ {st.condition : st \in Range(hm_nan_stats)} = {"dilated", "constricted"}
          /\ \A st \in Range(hm_nan_stats) :
                LET group == SelectSeq(merged_df, LAMBDA r : r.trial_condition = st.condition)
                IN  /\ st.total_rows = Len(group)
                    /\ st.nan_rows =
                          Cardinality({i \in DOMAIN group :
                              \/ group[i].gaze_pos_vid_x = NaN
                              \/ group[i].gaze_pos_vid_y = NaN})
                    /\ 0 <= st.nan_rows /\ st.nan_rows <= st.total_rows
                    /\ PercentageRight(st)

\* the statistics of the batch of 100 rows with 17 missing values are recorded
C14_Witness ==
    /\ variant = "preprocess" /\ pc = "dropna" /\ df = HundredTrial
    /\ Len(time_trimmed_df) = 100
    /\ \E st \in Range(nan_stats_df) :
          st.condition = "dilated" /\ st.nan_rows = 17 /\ st.nan_percentage = <<1700, 100>>

-----------------------------------------------------------------------------
(* C15 *)

\* what the steps of a variant give for a dataset that holds the samples g of
\* one (participant, trial) group and nothing else
Alone(g) ==
    IF variant = "process"
    THEN ZScoreFilter(
             DistanceFilter(
                 TrimGroup(DropNa(LastSection(g, trial_duration_ms)), time_trim),
                 distance_threshold),
             z_threshold)
    ELSE IF variant = "preprocess"
    THEN ZScoreFilter(
             DistanceFilter(
                 DropNa(TrimGroup(LastSection(g, trial_duration_ms), time_trim)),
                 distance_threshold),
             z_threshold)
    ELSE ZScoreFilter(
             DistanceFilter(IndexTrimTrial(g, g[1].trial_number, time_trim),
                            distance_threshold),
             z_threshold)

\* C15: filtering is trial-local: the samples of a (participant, trial) group
\* that survive edge trimming, distance filtering and z-score filtering are
\* those that survive when the dataset holds that group alone, so adding,
\* removing or changing samples of another trial or participant does not change
\* them (mean and standard deviation of the z-score are those of the trial).
C15_TrialLocal ==
    (variant \in Variants /\ pc = "done") =>
        \A k \in KeySet(df) : GroupRows(filtered_df, k) = Alone(GroupRows(df, k))

\* of two groups of one dataset, one has kept all its samples and the other has
\* lost all of them
C15_Witness ==
    /\ variant \in Variants /\ pc = "done"
    /\ \E k1, k2 \in KeySet(df) :
          /\ k1 # k2
          /\ GroupRows(filtered_df, k1) = GroupRows(df, k1)
          /\ GroupRows(filtered_df, k2) = <<>>

-----------------------------------------------------------------------------
(* C16 *)

\* C16: segmentation and filtering never reorder, duplicate, interpolate or
\* alter samples: for every (participant, trial) group the rows of the cleaned
\* output are a subsequence of the group's input rows, in their original
\* relative order, each at most once and with its original values.
C16_Subsequence ==
    (variant \in Variants /\ pc = "done") =>
        /\ \A k \in KeySet(filtered_df) :
              IsSubsequence(GroupRows(filtered_df, k), GroupRows(df, k))
        /\ \A k \in KeySet(time_trimmed_df) :
              IsSubsequence(GroupRows(time_trimmed_df, k), GroupRows(df, k))

\* a group of the output holds several samples and fewer than the group of the
\* input, the sample before its last one being lost
C16_Witness ==
    /\ variant \in Variants /\ pc = "done"
    /\ \E k \in KeySet(filtered_df) :
          LET out == GroupRows(filtered_df, k)
              in == GroupRows(df, k)
          IN  /\ Len(out) >= 2 /\ Len(out) < Len(in)
              /\ out[Len(out)] = in[Len(in)]
              /\ out[Len(out) - 1] # in[Len(in) - 1]

-----------------------------------------------------------------------------
(* C17 *)

XColumns == {"target_x", "top_left_x", "top_right_x", "bottom_left_x",
             "bottom_right_x", "gaze_x"}
YColumns == {"target_y", "top_left_y", "top_right_y", "bottom_left_y",
             "bottom_right_y", "gaze_y"}
OtherColumns == {"frame", "trial_number", "trial_condition", "pup_diam_l", "pup_diam_r"}

\* after is before re-centred on the target of its first row
Recentred(before, after) ==
    /\ Len(after) = Len(before)
    /\ \A i \in DOMAIN after :
          /\ DOMAIN after[i] = XColumns \cup YColumns \cup OtherColumns
          /\ after[i].target_x = before[1].target_x
          /\ after[i].target_y = before[1].target_y
          /\ \A c \in XColumns :
                after[i][c] - before[i][c] = before[1].target_x - before[i].target_x
          /\ \A c \in YColumns :
                after[i][c] - before[i][c] = before[1].target_y - before[i].target_y
          /\ after[i].gaze_x - after[i].target_x = before[i].gaze_x - before[i].target_x
          /\ after[i].gaze_y - after[i].target_y = before[i].gaze_y - before[i].target_y
          /\ after[i].top_right_x - after[i].top_left_x
                = before[i].top_right_x - before[i].top_left_x
          /\ after[i].bottom_left_y - after[i].top_left_y
                = before[i].bottom_left_y - before[i].top_left_y
          /\ \A c \in OtherColumns : after[i][c] = before[i][c]

\* C17: after stabilization every row's (target_x, target_y) is the target
\* position of the first row; within a row all x coordinates (target, four
\* corners, gaze) are shifted by the same x offset and all y coordinates by the
\* same y offset, so gaze-minus-target and corner-to-corner differences are
\* unchanged; frame, trial number, condition and pupil diameters are unchanged;
\* applying stabilization a second time changes nothing.
C17_Stabilization ==
    /\ (hm_script = "hm_nan_undistort_stabilize" /\ hpc \in {"stabilize", "done"}) =>
           Recentred(undistort_result, undistorted_df)
    /\ (hm_script = "hm_nan_undistort_stabilize" /\ hpc = "done") =>
           /\ Recentred(undistort_result, stabilized_csv)
           /\ stabilized_csv = undistorted_df

\* a recording of three frames, the target of the second and third away from
\* the one of the first, has been stabilized
C17_Witness ==
    /\ hm_script = "hm_nan_undistort_stabilize" /\ hpc = "done"
    /\ Len(stabilized_csv) = 3
    /\ undistort_result[2].target_x # undistort_result[1].target_x
    /\ undistort_result[3].target_y # undistort_result[1].target_y
    /\ stabilized_csv[2].gaze_x # undistort_result[2].gaze_x

-----------------------------------------------------------------------------
(* C18 *)

\* C18: no pipeline stage mutates the dataset it was given: undistort_dataframe,
\* the stabilization step and clean_trials each return a new dataset and leave
\* their input (rows, column set and values) unchanged, so the undistorted
\* dataset still holds un-stabilized coordinates after stabilization has run.
C18_InputsUnchanged ==
    /\ (hm_script = "hm_nan_undistort_stabilize"
          /\ hpc \in {"align", "stabilize", "done", "error"}) =>
           hm_df = StabilizeInput(merged_df)
    /\ (hm_script = "hm_nan_undistort_stabilize" /\ hpc \in {"stabilize", "done"}) =>
           /\ undistorted_df = undistort_result
           /\ undistorted_csv = undistort_result
    /\ (variant = "hm_to_deg" /\ pc = "done") => trim_input = df

-----------------------------------------------------------------------------
(* C19, C20: load_and_preprocess_data *)

Loaded == lpc = "done"

\* the rows of processed_df in the (participantId, trialNumber) group of row i
OutputGroup(i) ==
    {j \in DOMAIN processed_df :
       /\ processed_df[j].participant_id = processed_df[i].participant_id
       /\ processed_df[j].trial_number = processed_df[i].trial_number}

\* in the groups G, every sample's time is its timestamp minus the least
\* timestamp of its group, the least time of a group is 0, none is negative
TimeFromGroupStart(G(_)) ==
    \A i \in DOMAIN processed_df :
        /\ processed_df[i].TIME_FROM_TRIAL_START_MS =
               raw_csv[i].TIMESTAMP - SetMin({raw_csv[j].TIMESTAMP : j \in G(i)})
        /\ processed_df[i].TIME_FROM_TRIAL_START_MS >= 0
        /\ \E j \in G(i) : processed_df[j].TIME_FROM_TRIAL_START_MS = 0

\* C19: within every (participantId, trialNumber) group of the
\* output, each sample's time-from-trial-start equals its timestamp minus
\* the minimum timestamp of that same group, the group's minimum
\* time-from-trial-start is 0 and none is negative.
C19_TimeFromTrialStart ==
    Loaded => TimeFromGroupStart(OutputGroup)

\* C20: trial_condition is "dilated" exactly when the trial index is odd
\* and "constricted" otherwise, for every trial index, and two samples of
\* one trial index have one condition whatever their session labels.
C20_ParityRule ==
    Loaded =>
        /\ \A i \in DOMAIN processed_df :
              /\ processed_df[i].trial_number = raw_csv[i].TRIAL_INDEX
              /\ processed_df[i].trial_condition \in {"dilated", "constricted"}
              /\ processed_df[i].trial_condition = "dilated"
                     <=> raw_csv[i].TRIAL_INDEX % 2 = 1
        /\ \A i, j \in DOMAIN processed_df :
              raw_csv[i].TRIAL_INDEX = raw_csv[j].TRIAL_INDEX
                  => processed_df[i].trial_condition = processed_df[j].trial_condition

\* an export with an odd trial, an even trial, and the highest index
C20_Witness ==
    /\ Loaded
    /\ \E i, j, k \in DOMAIN processed_df :
           /\ processed_df[i].trial_condition = "dilated"
           /\ processed_df[j].trial_condition = "constricted"
           /\ processed_df[k].trial_number = MaxTrialIndex
           /\ processed_df[i].participant_id # processed_df[j].participant_id

-----------------------------------------------------------------------------
(* C21 *)

\* the two pupil columns: raw area and squared diameter
Eyes == {<<"LEFT_PUPIL_SIZE", "pup_diam_l_squared">>,
         <<"RIGHT_PUPIL_SIZE", "pup_diam_r_squared">>}

\* d1 < d2 for two diameters that are not negative, by their squares; the
\* squares are fractions of one denominator
DiamLess(q1, q2) == q1[2] = q2[2] /\ q1[1] < q2[1]

\* C21: for both eyes diameter^2 * 11815 = 225 * rawArea (the squared
\* diameter is the fraction 225 * rawArea / 11815), the reference area
\* 11815 gives 15 mm, and of two raw areas 0 <= a1 < a2 the first has the
\* strictly smaller diameter.
C21_PupilDiameter ==
    Loaded =>
        \A e \in Eyes : \A i \in DOMAIN processed_df :
            LET a1 == raw_csv[i][e[1]]
                d1 == processed_df[i][e[2]]
            IN  ~IsNaN(a1) =>
                  /\ ~IsNaN(d1[1])
                  /\ d1[2] = 11815 /\ d1[1] = 225 * a1
                  /\ a1 = 11815 => d1[1] = 15 * 15 * d1[2]
                  /\ \A f \in Eyes : \A j \in DOMAIN processed_df :
                        (~IsNaN(raw_csv[j][f[1]]) /\ 0 <= a1 /\ a1 < raw_csv[j][f[1]])
                            => DiamLess(d1, processed_df[j][f[2]])

\* an export with the reference area and with two areas one apart
C21_Witness ==
    /\ Loaded
    /\ \E i, j \in DOMAIN raw_csv :
           /\ raw_csv[i].LEFT_PUPIL_SIZE = 11815
           /\ raw_csv[j].RIGHT_PUPIL_SIZE = 11816
           /\ processed_df[i].pup_diam_l_squared = <<225 * 11815, 11815>>

-----------------------------------------------------------------------------
(* C22 *)

\* the characters of label that are digits, counted
DigitCount(label) == Cardinality({k \in DOMAIN label : label[k] \in Digits})

\* C22: every participant_id consists of digits only, is the raw session
\* label's digit characters in their original order (a subsequence of the
\* label that has all its digits), and sanitizing it again changes nothing.
C22_IdSanitized ==
    Loaded =>
        \A i \in DOMAIN processed_df :
            LET id == processed_df[i].participant_id
                label == raw_csv[i].RECORDING_SESSION_LABEL
            IN  /\ \A k \in DOMAIN id : id[k] \in Digits
                /\ IsSubsequence(id, label)
                /\ Len(id) = DigitCount(label)
                /\ CleanId(id) = id

\* an export whose label has digits among other characters and a zero
C22_Witness ==
    /\ Loaded
    /\ \E i \in DOMAIN processed_df :
           /\ raw_csv[i].RECORDING_SESSION_LABEL = <<"0", "7", "_", "0">>
           /\ processed_df[i].participant_id = <<"0", "7", "0">>
    /\ \E i \in DOMAIN processed_df :
           /\ raw_csv[i].RECORDING_SESSION_LABEL = <<"x">>
           /\ processed_df[i].participant_id = <<>>

-----------------------------------------------------------------------------
(* C23 *)

GeoStarted == gpc # "idle"
GeoDistanced == gpc \in {"merge", "convert", "done"}
GeoConverted == gpc = "done"

\* the table of physical reference dimensions
ReferenceTable(eye_tracker, participant_id, trial_condition) ==
    CASE eye_tracker = "Pupil Core" ->
           IF participant_id \in {319, 460, 503, 772, 844} /\ trial_condition = "bright"
           THEN <<47664, 26811>> ELSE <<34631, 13778>>
      [] eye_tracker = "Tobii Glasses 2" ->
           IF trial_condition = "dark" THEN <<34631, 13778>> ELSE <<47664, 26811>>
      [] eye_tracker \in {"SMI ETG", "Pupil Neon"} -> <<34631, 13778>>

\* C23: for every device, participant and condition the distance
\* computation and the visual-angle conversion use the same dimensions, those
\* of the table: Pupil Core 476.64 x 268.11 mm iff the participant is one of
\* 319, 460, 503, 772, 844 and the condition is bright, else 346.31 x 137.78;
\* Tobii Glasses 2 346.31 x 137.78 for dark and 476.64 x 268.11 otherwise;
\* SMI ETG and Pupil Neon always 346.31 x 137.78.
C23_ReferenceDimensions ==
    GeoStarted =>
        \A i \in DOMAIN stabilized_rows :
            LET row == stabilized_rows[i]
                table == ReferenceTable(row.eye_tracker, row.participant_id,
                                        row.trial_condition)
            IN  /\ RealDimsDistance(geo_dir.eye_tracker, geo_dir.participant_id,
                                    row.trial_condition) = table
                /\ RealDimsAngles(row.eye_tracker, row.participant_id,
                                  row.trial_condition) = table
                /\ GeoDistanced =>
                      distance_df[i] = DistanceRecord(geo_dir, focal_length, row)

\* a Pupil Core directory of a listed participant with a bright and a dark row
C23_Witness ==
    /\ GeoConverted
    /\ geo_dir.eye_tracker = "Pupil Core"
    /\ geo_dir.participant_id = 844
    /\ \E i, j \in DOMAIN stabilized_rows :
           /\ stabilized_rows[i].trial_condition = "bright"
           /\ stabilized_rows[j].trial_condition = "dark"

-----------------------------------------------------------------------------
(* C24 *)

\* dimension * focal / mean(e1, e2) for two edge lengths
DistanceEstimate(dimension, focal, e1, e2) ==
    IF IsNaNFrac(e1) \/ IsNaNFrac(e2) THEN NaNFrac
    ELSE MkFrac(2 * dimension * focal, e1[1] + e2[1])

\* C24: distance.csv has one row per row of stabilized.csv, in the same
\* order; its distance_from_width is realWidth * focalLength / mean(top,
\* bottom), its distance_from_height is realHeight * focalLength / mean(left,
\* right), and its distance_average is the arithmetic mean of the two.
C24_ViewingDistance ==
    GeoDistanced =>
        /\ Len(distance_df) = Len(stabilized_rows)
        /\ \A i \in DOMAIN distance_df :
              LET row == stabilized_rows[i]
                  dims == ReferenceTable(row.eye_tracker, row.participant_id,
                                         row.trial_condition)
                  w == DistanceEstimate(dims[1], focal_length,
                                        top_width(row), bottom_width(row))
                  h == DistanceEstimate(dims[2], focal_length,
                                        left_height(row), right_height(row))
                  d == distance_df[i]
              IN  /\ d.frame = row.frame
                  /\ d.distance_from_width = w
                  /\ d.distance_from_height = h
                  /\ (IsFinite(w) /\ IsFinite(h)) =>
                        /\ IsFinite(d.distance_average)
                        /\ 2 * d.distance_average[1] * w[2] * h[2]
                              = d.distance_average[2] * (w[1] * h[2] + h[1] * w[2])

\* two rows, the first with four different edges and a focal length
C24_Witness ==
    /\ GeoDistanced
    /\ focal_length = 2
    /\ Len(distance_df) = 2
    /\ top_width(stabilized_rows[1]) = <<8, 1>>
    /\ bottom_width(stabilized_rows[1]) = <<10, 1>>
    /\ left_height(stabilized_rows[1]) = <<6, 1>>
    /\ right_height(stabilized_rows[1]) = <<12, 1>>
    /\ distance_df[1].distance_from_width # distance_df[1].distance_from_height

-----------------------------------------------------------------------------
(* C25 *)

\* (W / top + W / bottom + H / left + H / right) / 4 over one denominator
MeanOfFourRatios(W, H, top, bottom, left, right) ==
    MkFrac(W * bottom * left * right + W * top * left * right
               + H * top * bottom * right + H * top * bottom * left,
           4 * top * bottom * left * right)

\* the rows whose four edges have a length that is not zero
FourEdges(row) ==
    /\ IsFinite(top_width(row)) /\ top_width(row)[1] > 0
    /\ IsFinite(bottom_width(row)) /\ bottom_width(row)[1] > 0
    /\ IsFinite(left_height(row)) /\ left_height(row)[1] > 0
    /\ IsFinite(right_height(row)) /\ right_height(row)[1] > 0

\* C25: the scaling factor of a row is (W/top + W/bottom + H/left +
\* H/right) / 4 over the lengths of the edges between its corner points, and
\* the gaze angle of the row is taken with this factor.
C25_ScalingFactor ==
    GeoConverted =>
        \A i \in DOMAIN angles_df :
            LET row == stabilized_rows[i]
                dims == ReferenceTable(row.eye_tracker, row.participant_id,
                                       row.trial_condition)
                mean == MeanOfFourRatios(dims[1], dims[2], top_width(row)[1],
                                         bottom_width(row)[1], left_height(row)[1],
                                         right_height(row)[1])
            IN  FourEdges(row) =>
                  /\ CalculateScalingFactor(row, dims) = mean
                  /\ angles_df[i].gaze_angle_x =
                        FracDiv(FracMul(<<row.gaze_x - row.target_x, 1>>, mean),
                                angles_df[i].distance_average)

\* a converted row with four different edges, where the mean of the four
\* ratios is not the ratio of the means, and a gaze off the target
C25_Witness ==
    /\ GeoConverted
    /\ \E i \in DOMAIN angles_df :
           LET row == stabilized_rows[i]
               dims == ReferenceTable(row.eye_tracker, row.participant_id,
                                      row.trial_condition)
           IN  /\ FourEdges(row)
               /\ top_width(row) # bottom_width(row)
               /\ CalculateScalingFactor(row, dims) #
                      MkFrac(2 * (dims[1] + dims[2]),
                             top_width(row)[1] + bottom_width(row)[1]
                                 + left_height(row)[1] + right_height(row)[1])
               /\ IsFinite(angles_df[i].gaze_angle_x)
               /\ angles_df[i].gaze_angle_x[1] # 0

-----------------------------------------------------------------------------
(* C30 *)

\* C30: every converted head-mounted row with a finite scaling factor and a
\* finite non-zero viewing distance has target_angle_x = target_angle_y = 0,
\* and the two differences of its gaze-to-target distance are its gaze
\* angles; every sample of the screen-based normalizer has both target
\* angles 0.
C30_TargetAnglesZero ==
    /\ GeoConverted =>
          \A i \in DOMAIN angles_df :
              LET row == angles_df[i]
                  dims == ReferenceTable(row.eye_tracker, row.participant_id,
                                         row.trial_condition)
                  scale == CalculateScalingFactor(stabilized_rows[i], dims)
              IN  (IsFinite(scale) /\ IsFinite(row.distance_average)
                       /\ row.distance_average[1] # 0) =>
                    /\ row.target_angle_x = <<0, 1>>
                    /\ row.target_angle_y = <<0, 1>>
                    /\ DistanceComponents(row) = <<row.gaze_angle_x, row.gaze_angle_y>>
    /\ Loaded =>
          \A i \in DOMAIN processed_df :
              /\ processed_df[i].target_angle_x = 0
              /\ processed_df[i].target_angle_y = 0

\* a converted row with a finite factor and distance whose gaze is off the
\* target, next to a row whose factor is not finite
C30_Witness ==
    /\ GeoConverted
    /\ \E i, j \in DOMAIN angles_df :
           /\ IsFinite(angles_df[i].distance_average)
           /\ angles_df[i].distance_average[1] # 0
           /\ IsFinite(angles_df[i].gaze_angle_x)
           /\ angles_df[i].gaze_angle_x[1] # 0
           /\ angles_df[i].target_angle_x = <<0, 1>>
           /\ IsNaNFrac(angles_df[j].target_angle_x)

-----------------------------------------------------------------------------
(* C26 *)

\* the code's exceptions for the two error kinds: FileNotFoundError for a
\* missing source; for a malformed one the ValueError it raises for missing
\* distortion data and for text that is no number, and the ParseError of
\* the XML parser
MalformedErrors == {"ValueError", "ParseError"}

MatrixUnparseable == cal_source.matrix \in {"absent", "non_numeric", "eight_values"}
DistortionUnparseable ==
    cal_class = "hm_nan_undistort_stabilize" /\ cal_source.dist \in {"absent", "empty"}

\* C26: construction fails with the missing-source error when the source
\* does not exist, with the malformed-source error when the source exists
\* and the matrix or, where required, the distortion data cannot be parsed,
\* and no other kind of error leaves the constructor.
C26_ConstructionErrors ==
    cpc = "done" =>
        /\ ~cal_source.exists => cal_result = "FileNotFoundError"
        /\ (cal_source.exists /\ (MatrixUnparseable \/ DistortionUnparseable))
               => cal_result \in MalformedErrors
        /\ cal_result \in {"constructed", "FileNotFoundError"} \cup MalformedErrors

-----------------------------------------------------------------------------
(* C27 *)

Advances == current_state' # current_state

\* C27: a screen with a duration is left for the next one only when its
\* duration has elapsed, and a space bar read before that leaves it on; a
\* screen without a duration (-1) is left only when the space bar is read,
\* however much time has passed.
C27_DurationOrSpace ==
    [][/\ (Advances /\ duration_seconds(current_state) # -1)
            => elapsed >= duration_seconds(current_state)
       /\ (spc = "poll" /\ duration_seconds(current_state) # -1 /\ key' = 32
               /\ elapsed' < duration_seconds(current_state))
            => (current_state' = current_state /\ spc' = "poll")
       /\ (Advances /\ duration_seconds(current_state) = -1)
            => key' = 32
       /\ (spc = "poll" /\ duration_seconds(current_state) = -1 /\ key' \notin {32, 113})
            => (current_state' = current_state /\ spc' = "poll")]_vars

\* the space bar read on the third screen, whose duration has not elapsed,
\* and the screen still on
C27_Witness ==
    /\ spc = "poll"
    /\ current_state = 2
    /\ duration_seconds(current_state) = 2
    /\ elapsed = 1
    /\ key = 32

-----------------------------------------------------------------------------
(* C28 *)

\* the indices 0 .. n - 1 in order
FirstScreens(n) == [i \in 1..n |-> i - 1]

\* C28: the screens shown are a prefix of the list, each once and in list
\* order, the index moves one screen at a time; q read while a screen waits
\* ends the program with no later screen shown; the loop ends only after
\* the end page, the last of the list, was left by the space bar.
C28_ListOrder ==
    /\ [](/\ shown = FirstScreens(Len(shown))
          /\ spc \in {"poll", "exited"} => Len(shown) = current_state + 1
          /\ spc \in {"show", "done"} => Len(shown) = current_state
          /\ spc = "exited" => key = 113
          /\ spc = "done" => (shown = FirstScreens(Len(states)) /\ key = 32))
    /\ [][/\ Advances => current_state' = current_state + 1
          /\ (spc = "poll" /\ key' = 113 /\ ~DurationElapsed(current_state))
               => (spc' = "exited" /\ shown' = shown)
          /\ spc = "exited" => (spc' = "exited" /\ shown' = shown)
          /\ (spc = "show" /\ current_state = Len(states)) => spc' = "done"]_vars

\* the program left by q on the fourth screen
C28_Witness ==
    /\ spc = "exited"
    /\ current_state = 3
    /\ shown = <<0, 1, 2, 3>>

-----------------------------------------------------------------------------
(* C29 *)

NotAllEqual(vals) == \E i, j \in DOMAIN vals : vals[i] # vals[j]

\* among n values no |z| exceeds sqrt(n - 1): n^2 (v - mean)^2 <= (n - 1) n^2 var
ZAtMostRootNMinusOne(vals) ==
    \A i \in DOMAIN vals :
        Sq(Len(vals) * vals[i] - SeqSum(vals)) <= (Len(vals) - 1) * VarNum(vals)

\* C29: with zThreshold = 3 the z-score step removes no sample of a trial
\* that has from 2 to 9 distance-filtered samples whose values are not all
\* equal on the axes checked; the largest |z| among n samples is sqrt(n - 1),
\* below 3 for n <= 9.  For the two clean_trials with two axis columns and
\* the eyelink files the axes are gaze_angle_x and gaze_angle_y, for
\* head_mounted_data_cleaner the axis is gaze_target_angle.
C29_NoRejectionBelowTen ==
    /\ (variant \in Variants /\ pc = "done" /\ z_threshold = 3) =>
          \A k \in KeySet(distance_filtered_df) :
              LET g == GroupRows(distance_filtered_df, k)
                  xs == Column(g, "gaze_angle_x")
                  ys == Column(g, "gaze_angle_y")
              IN  /\ ZAtMostRootNMinusOne(xs)
                  /\ ZAtMostRootNMinusOne(ys)
                  /\ (Len(g) >= 2 /\ Len(g) <= 9 /\ NotAllEqual(xs) /\ NotAllEqual(ys))
                        => GroupRows(filtered_df, k) = g
    /\ (hm_script = "head_mounted_data_cleaner" /\ hpc = "done" /\ z_threshold = 3) =>
          \A seg \in Range(Column(hm_df, "segment")) :
              LET g == CleanerDistanceTrimmed(hm_df, seg, time_trim, distance_threshold)
                  as == Column(g, "gaze_target_angle")
              IN  (Len(g) >= 2 /\ Len(g) <= 9 /\ NotAllEqual(as))
                    => SelectSeq(cleaned_df, LAMBDA r : r.segment = seg) = g

\* a trial of nine distance-filtered samples, eight equal and one apart on
\* both axes (|z| = sqrt(8)), has kept all nine
C29_Witness ==
    /\ variant \in Variants /\ pc = "done" /\ z_threshold = 3
    /\ Len(distance_filtered_df) = 9
    /\ Len(filtered_df) = 9
    /\ \E i \in 1..9 :
          /\ \A j \in 1..9 : j # i => distance_filtered_df[j].gaze_angle_x = 0
          /\ distance_filtered_df[i].gaze_angle_x = 6
          /\ Sq(9 * 6 - 6) = 8 * VarNum(Column(distance_filtered_df, "gaze_angle_x"))

=============================================================================
